---------------------------- MODULE Spec2Model ----------------------------
(***************************************************************************)
(* A model of the positional-astronomy core of AsAbove:                    *)
(*   lib/riseSetTimes.ts          calculateHourAngleAtHorizon,             *)
(*                                calculateRiseSetTimes                    *)
(*   AsAbove/lib/viewingTimes.ts  calculateSunset, calculateSunrise,       *)
(*                                calculateBestViewingWindow               *)
(*   AsAbove/lib/astronomy.ts     getVisibilityStatus,                     *)
(*                                getMockCelestialObjects                  *)
(*   unnamed/part_005 (usnoApi)   fetchUsnoRiseSetTimes and its batch      *)
(*   unnamed/part_007 (horizons)  fetchHorizonsRiseSetTimes and its batch  *)
(*                                                                         *)
(* Units.  An instant (a JavaScript Date) is an integer number of minutes  *)
(* since 2000-01-01T00:00Z, so the J2000.0 epoch is minute 720 and a UTC   *)
(* calendar day is 1440 consecutive minutes.  Angles are whole degrees;    *)
(* right ascension and sidereal time are minutes of time (1 degree = 4     *)
(* minutes).  Trigonometry is fixed-point: sines are thousandths, read     *)
(* from a table of whole degrees.  Null is JavaScript's null/undefined for *)
(* an instant, NaN is the Invalid Date, Undefined is an omitted optional   *)
(* numeric argument.                                                       *)
(***************************************************************************)
EXTENDS Integers, Sequences, FiniteSets, TLC

VARIABLES
  call,            \* the function under evaluation and its arguments
  ret,             \* the value it returned, NoResult before it has returned
  pc,              \* getMockCelestialObjects: the await it is suspended at
  usno,            \* what the USNO service answers for each body
  horizons,        \* what the Horizons service answers for each body
  usnoCalls,       \* the per-body calls of the USNO batch
  horizonsCalls,   \* the per-body calls of the Horizons batch
  usnoResults,     \* usnoResults of getMockCelestialObjects, once awaited
  horizonsResults, \* horizonsResults of getMockCelestialObjects, once awaited
  apiResults,      \* apiResults of getMockCelestialObjects
  missingPlanets   \* missingPlanets of getMockCelestialObjects

resolverVars ==
  << pc, usno, horizons, usnoCalls, horizonsCalls, usnoResults, horizonsResults,
     apiResults, missingPlanets >>
vars == << call, ret, resolverVars >>

Null == 0 - 2000000000
NaN == 0 - 2000000001
Undefined == 0 - 2000000002
NoResult == [none |-> TRUE]

IsInstant(t) == t # Null /\ t # NaN

(***************************************************************************)
(* Arithmetic of the host language.                                        *)
(***************************************************************************)
Abs(x) == IF x < 0 THEN 0 - x ELSE x

\* The % operator of JavaScript: the result takes the sign of the dividend.
JsMod(a, b) == IF a >= 0 THEN a % b ELSE 0 - ((0 - a) % b)

\* Date comparison with < and >: false as soon as one side is the Invalid Date.
DateLt(a, b) == a # NaN /\ b # NaN /\ a < b
DateGt(a, b) == a # NaN /\ b # NaN /\ a > b

\* Date arithmetic through getTime()/setTime(): NaN is absorbing.
DatePlus(t, minutes) == IF t = NaN \/ minutes = NaN THEN NaN ELSE t + minutes

MinutesPerDay == 1440
MinutesPerHour == 60
J2000 == 720

\* Date.getHours(): the hour of the host's wall clock, NaN for the Invalid Date.
GetHours(t, hostTz) ==
  IF t = NaN THEN NaN ELSE ((t + hostTz * MinutesPerHour) % MinutesPerDay) \div MinutesPerHour

\* new Date(Date.UTC(getFullYear(), getMonth(), getDate(), 12, 0, 0, 0)):
\* noon UTC of the calendar day the host's wall clock shows for t.
NoonOfDate(t, hostTz) ==
  ((t + hostTz * MinutesPerHour) \div MinutesPerDay) * MinutesPerDay + 12 * MinutesPerHour

(***************************************************************************)
(* Fixed-point trigonometry.                                               *)
(***************************************************************************)
SinTable ==
  << 0, 17, 35, 52, 70, 87, 105, 122, 139, 156,
     174, 191, 208, 225, 242, 259, 276, 292, 309, 326,
     342, 358, 375, 391, 407, 423, 438, 454, 469, 485,
     500, 515, 530, 545, 559, 574, 588, 602, 616, 629,
     643, 656, 669, 682, 695, 707, 719, 731, 743, 755,
     766, 777, 788, 799, 809, 819, 829, 839, 848, 857,
     866, 875, 883, 891, 899, 906, 914, 921, 927, 934,
     940, 946, 951, 956, 961, 966, 970, 974, 978, 982,
     985, 988, 990, 993, 995, 996, 998, 999, 999, 1000,
     1000 >>

\* Math.sin of a whole number of degrees, in thousandths.
Sin(deg) ==
  LET a == deg % 360
  IN  IF a <= 90 THEN SinTable[a + 1]
      ELSE IF a <= 180 THEN SinTable[180 - a + 1]
      ELSE IF a <= 270 THEN 0 - SinTable[a - 180 + 1]
      ELSE 0 - SinTable[360 - a + 1]

\* Math.cos of a whole number of degrees, in thousandths.
Cos(deg) == Sin(deg + 90)

\* -Math.tan(latRad) * Math.tan(decRad), kept as the fraction num/den with
\* den >= 0 (tan = sin/cos, and the cosine of an angle in [-90,90] is >= 0).
CosHA(declination, latitude) ==
  [ num |-> 0 - (Sin(latitude) * Sin(declination)),
    den |-> Cos(latitude) * Cos(declination) ]

\* Math.abs(cosHA) > 1.  Math.tan(90 degrees) is a large finite number in
\* double arithmetic, so a zero denominator gives 0 when the numerator is 0
\* and a magnitude far above 1 otherwise.
AbsGreaterThanOne_OrEqual(c) == Abs(c.num) >= c.den

AbsGreaterThanOne(c) == Abs(c.num) > c.den

\* Math.acos(cosHA) * 180 / Math.PI, to the nearest degree, for |cosHA| <= 1;
\* acos(1) = 0 and acos(-1) = 180 exactly.
AcosDegrees(c) ==
  IF c.den = 0 THEN 90
  ELSE IF c.num = c.den THEN 0
  ELSE IF c.num = 0 - c.den THEN 180
  ELSE Cardinality({ k \in 1..180 : (Cos(k - 1) + Cos(k)) * c.den > 2000 * c.num })

(***************************************************************************)
(* lib/riseSetTimes.ts                                                     *)
(***************************************************************************)
\* Degrees of hour angle at the horizon, Null when the body is circumpolar.
calculateHourAngleAtHorizon(declination, latitude) ==
  LET cosHA == CosHA(declination, latitude)
  IN  IF AbsGreaterThanOne(cosHA) THEN Null ELSE AcosDegrees(cosHA)

\* noonLocal: civil noon of the date, moved to UTC by the timezone offset.
NoonLocal(date, timezoneOffset, hostTz) ==
  IF timezoneOffset # Undefined
  THEN NoonOfDate(date, hostTz) - timezoneOffset * MinutesPerHour
  ELSE NoonOfDate(date, hostTz)

\* 0.985647 degrees per day since J2000.0, as minutes of time (x4):
\* 3.942588 minutes per day, split over whole days and the minutes left.
SiderealDrift(t) ==
  LET m == t - J2000
      q == m \div MinutesPerDay
      r == m % MinutesPerDay
  IN  3 * q + (94259 * q) \div 100000 + (3943 * r) \div (1000 * MinutesPerDay)

\* lstAtNoon: (100.46 + 0.985647 d + longitude + 15 UTC hours) % 360, made
\* non-negative, as minutes of sidereal time.
LstAtNoon(noonLocal, longitude) ==
  LET utcMinutes == noonLocal % MinutesPerDay
      lst == JsMod(402 + SiderealDrift(noonLocal) + 4 * longitude + utcMinutes, MinutesPerDay)
  IN  IF lst < 0 THEN lst + MinutesPerDay ELSE lst

\* hoursToTransit, in minutes: (RA - LST at noon) % 24 folded by +-24 h.
HoursToTransit(rightAscension, lstAtNoon) ==
  LET h == JsMod(rightAscension - lstAtNoon, MinutesPerDay)
  IN  IF h > 720 THEN h - MinutesPerDay
      ELSE IF h < 0 - 720 THEN h + MinutesPerDay
      ELSE h

\* The timezone offset added back for display.
ToDisplay(t, timezoneOffset) ==
  IF timezoneOffset # Undefined THEN t + timezoneOffset * MinutesPerHour ELSE t

\* The function with the set time left out of the adjustment for display.
calculateRiseSetTimes_SetUnshifted(rightAscension, declination, latitude, longitude, date, timezoneOffset, hostTz) ==
  LET noonLocal == NoonLocal(date, timezoneOffset, hostTz)
      lstAtNoon == LstAtNoon(noonLocal, longitude)
      hourAngleAtHorizon == calculateHourAngleAtHorizon(declination, latitude)
      haMinutes == 4 * hourAngleAtHorizon
      transitTime == noonLocal + HoursToTransit(rightAscension, lstAtNoon)
  IN  IF hourAngleAtHorizon = Null
      THEN [ riseTime |-> Null, setTime |-> Null, transitTime |-> noonLocal ]
      ELSE [ riseTime    |-> ToDisplay(transitTime - haMinutes, timezoneOffset),
             setTime     |-> transitTime + haMinutes,
             transitTime |-> ToDisplay(transitTime, timezoneOffset) ]

calculateRiseSetTimes(rightAscension, declination, latitude, longitude, date, timezoneOffset, hostTz) ==
  LET noonLocal == NoonLocal(date, timezoneOffset, hostTz)
      lstAtNoon == LstAtNoon(noonLocal, longitude)
      hourAngleAtHorizon == calculateHourAngleAtHorizon(declination, latitude)
      haMinutes == 4 * hourAngleAtHorizon
      transitTime == noonLocal + HoursToTransit(rightAscension, lstAtNoon)
  IN  IF hourAngleAtHorizon = Null
      THEN [ riseTime |-> Null, setTime |-> Null, transitTime |-> noonLocal ]
      ELSE [ riseTime    |-> ToDisplay(transitTime - haMinutes, timezoneOffset),
             setTime     |-> ToDisplay(transitTime + haMinutes, timezoneOffset),
             transitTime |-> ToDisplay(transitTime, timezoneOffset) ]

(***************************************************************************)
(* AsAbove/lib/viewingTimes.ts                                             *)
(***************************************************************************)
\* 23.45 * sin(360 * (d + 284) / 365.25 degrees), to the nearest degree.
\* With d = (date - J2000) / 1440 the angle is (m + 284 * 1440) / 1461.
SolarDeclination(date) ==
  LET m == date - J2000
      angle == (m + 284 * MinutesPerDay) \div 1461
  IN  (2345 * Sin(angle) + 50000) \div 100000

\* ((d % 365.25) / 365.25 * 24 + 12) % 24, as minutes of time:
\* 24 h / 365.25 d is 4 minutes per 1461 minutes of d.
SolarRA(date) ==
  LET m == JsMod(date - J2000, 525960)
      ra == IF m >= 0 THEN (4 * m) \div 1461 ELSE 0 - ((4 * (0 - m)) \div 1461)
  IN  JsMod(ra + 720, MinutesPerDay)

\* haHours of the Sun, in minutes: Math.acos is NaN outside [-1,1] and the
\* function does not test for it.
SolarHourAngle(latitude, date) ==
  LET cosHA == CosHA(SolarDeclination(date), latitude)
  IN  IF AbsGreaterThanOne(cosHA) THEN NaN ELSE 4 * AcosDegrees(cosHA)

calculateSunset(latitude, longitude, date, timezoneOffset, hostTz) ==
  LET haMinutes == SolarHourAngle(latitude, date)
      noonLocal == NoonLocal(date, timezoneOffset, hostTz)
      lstAtNoon == LstAtNoon(noonLocal, longitude)
      transitTime == noonLocal + HoursToTransit(SolarRA(date), lstAtNoon)
  IN  IF haMinutes = NaN THEN NaN
      ELSE ToDisplay(transitTime - haMinutes, timezoneOffset)

\* nextDay.setDate(nextDay.getDate() + 1)
NextDay(date) == DatePlus(date, MinutesPerDay)

\* sunset - (nextSunset - sunset) / 2, the half minute dropped by setTime.
calculateSunrise(latitude, longitude, date, timezoneOffset, hostTz) ==
  LET sunset == calculateSunset(latitude, longitude, date, timezoneOffset, hostTz)
      nextSunset == calculateSunset(latitude, longitude, NextDay(date), timezoneOffset, hostTz)
  IN  IF sunset = NaN \/ nextSunset = NaN THEN NaN
      ELSE sunset + ((sunset - nextSunset) \div 2)

\* The planner's own transit left in UTC, without the shift for display.
WindowTransit_Undisplayed(rightAscension, longitude, date, timezoneOffset, hostTz) ==
  LET noonLocal == NoonLocal(date, timezoneOffset, hostTz)
      lstAtNoon == LstAtNoon(noonLocal, longitude)
  IN  noonLocal + HoursToTransit(rightAscension, lstAtNoon)

\* The transit the planner computes itself when none is supplied.
WindowTransit(rightAscension, longitude, date, timezoneOffset, hostTz) ==
  LET noonLocal == NoonLocal(date, timezoneOffset, hostTz)
      lstAtNoon == LstAtNoon(noonLocal, longitude)
  IN  ToDisplay(noonLocal + HoursToTransit(rightAscension, lstAtNoon), timezoneOffset)

\* if (startTime < sunset) startTime = new Date(sunset)
ClipStart(startTime, sunset) == IF DateLt(startTime, sunset) THEN sunset ELSE startTime

\* if (endTime > sunrise) endTime = new Date(sunrise)
ClipEnd(endTime, sunrise) == IF DateGt(endTime, sunrise) THEN sunrise ELSE endTime

\* transitHour >= 18 && transitHour <= 23; a comparison with NaN is false.
IsEveningTransit_From19(transitHour) ==
  transitHour # NaN /\ transitHour > 18 /\ transitHour <= 23

IsEveningTransit(transitHour) ==
  transitHour # NaN /\ transitHour >= 18 /\ transitHour <= 23

\* transitHour >= 0 && transitHour <= 6
IsMorningTransit(transitHour) ==
  transitHour # NaN /\ transitHour >= 0 /\ transitHour <= 6

\* The branches with the daytime one centred on the transit like the others.
WindowBeforeFinalClip_AroundTransit(transitTime, sunset, sunrise, hostTz) ==
  LET transitHour == GetHours(transitTime, hostTz)
  IN  IF IsEveningTransit(transitHour)
      THEN [ startTime |-> ClipStart(DatePlus(transitTime, 0 - 60), sunset),
             endTime   |-> ClipEnd(DatePlus(transitTime, 90), sunrise) ]
      ELSE [ startTime |-> ClipStart(DatePlus(transitTime, 0 - 90), sunset),
             endTime   |-> ClipEnd(DatePlus(transitTime, 60), sunrise) ]

\* The three branches on transitTime.getHours(), each with its own clipping.
WindowBeforeFinalClip(transitTime, sunset, sunrise, hostTz) ==
  LET transitHour == GetHours(transitTime, hostTz)
  IN  IF IsEveningTransit(transitHour)
      THEN [ startTime |-> ClipStart(DatePlus(transitTime, 0 - 60), sunset),
             endTime   |-> ClipEnd(DatePlus(transitTime, 90), sunrise) ]
      ELSE IF IsMorningTransit(transitHour)
      THEN [ startTime |-> ClipStart(DatePlus(transitTime, 0 - 90), sunset),
             endTime   |-> ClipEnd(DatePlus(transitTime, 60), sunrise) ]
      ELSE [ startTime |-> DatePlus(sunset, 0 - 30),
             endTime   |-> ClipEnd(DatePlus(sunset, 120), sunrise) ]

\* The planner with the supplied transit time ignored.
calculateBestViewingWindow_Recomputed(rightAscension, declination, latitude, longitude, date, timezoneOffset, transitTimeOverride, hostTz) ==
  LET sunset == calculateSunset(latitude, longitude, date, timezoneOffset, hostTz)
      sunrise == calculateSunrise(latitude, longitude, NextDay(date), timezoneOffset, hostTz)
      transitTime == WindowTransit(rightAscension, longitude, date, timezoneOffset, hostTz)
      w == WindowBeforeFinalClip(transitTime, sunset, sunrise, hostTz)
  IN  [ startTime |-> ClipStart(w.startTime, sunset),
        endTime   |-> ClipEnd(w.endTime, sunrise),
        peakTime  |-> transitTime ]

calculateBestViewingWindow(rightAscension, declination, latitude, longitude, date, timezoneOffset, transitTimeOverride, hostTz) ==
  LET sunset == calculateSunset(latitude, longitude, date, timezoneOffset, hostTz)
      sunrise == calculateSunrise(latitude, longitude, NextDay(date), timezoneOffset, hostTz)
      transitTime == IF transitTimeOverride # Null
                     THEN transitTimeOverride
                     ELSE WindowTransit(rightAscension, longitude, date, timezoneOffset, hostTz)
      w == WindowBeforeFinalClip(transitTime, sunset, sunrise, hostTz)
  IN  [ startTime |-> ClipStart(w.startTime, sunset),
        endTime   |-> ClipEnd(w.endTime, sunrise),
        peakTime  |-> transitTime ]

(***************************************************************************)
(* AsAbove/lib/astronomy.ts: getVisibilityStatus                           *)
(***************************************************************************)
\* Number comparisons of the host language: false when the number is NaN.
NumGt(a, b) == a # NaN /\ a > b
NumLe(a, b) == a # NaN /\ a <= b

\* isNightTime: getHours() < 6 || getHours() >= 18
IsNightTime(currentTime, hostTz) ==
  LET h == GetHours(currentTime, hostTz)
  IN  h # NaN /\ (h < 6 \/ h >= 18)

TwoHours == 120

\* riseTime && currentTime < riseTime, then hoursUntilRise <= 2
RisesWithinTwoHours_Strict(riseTime, currentTime) ==
  /\ riseTime # Null
  /\ DateLt(currentTime, riseTime)
  /\ riseTime - currentTime < TwoHours

RisesWithinTwoHours(riseTime, currentTime) ==
  /\ riseTime # Null
  /\ DateLt(currentTime, riseTime)
  /\ riseTime - currentTime <= TwoHours

\* The record returned, without its badge, message and colours; setTime is
\* accepted and not read.
getVisibilityStatus(altitude, riseTime, setTime, currentTime, hostTz) ==
  IF NumGt(altitude, 0) /\ IsNightTime(currentTime, hostTz) THEN [ status |-> "visible" ]
  ELSE IF RisesWithinTwoHours(riseTime, currentTime) THEN [ status |-> "rising" ]
  ELSE IF NumLe(altitude, 0) THEN [ status |-> "below" ]
  ELSE [ status |-> "daylight" ]

(***************************************************************************)
(* unnamed/part_005: the USNO provider.                                    *)
(*                                                                         *)
(* A service response is [kind, fields]: kind is "ok" for a success status *)
(* with a well-formed body, "httpError" for a non-success status,          *)
(* "malformed" for a body that does not parse and "exception" for a fetch  *)
(* that throws; fields are the events the body of an "ok" response holds a *)
(* time token for.  A token is a wall-clock time, in minutes after 00:00.  *)
(***************************************************************************)
Range(seq) == { seq[i] : i \in 1..Len(seq) }

NullTiming == [ riseTime |-> Null, setTime |-> Null, transitTime |-> Null ]

USNO_BODY_CODES ==
  { "Sun", "Moon", "Mercury", "Venus", "Mars", "Jupiter", "Saturn", "Uranus", "Neptune" }

\* The tokens of a USNO body: "6:27 A.M.", "5:45 P.M." and "12:06 P.M.".
UsnoToken == [ rise |-> 387, set |-> 1065, transit |-> 726 ]

\* new Date(referenceDate) with setHours(hours, minutes, 0, 0): the token on
\* the calendar day of the host's wall clock.
parseUsnoTime(token, referenceDate, hostTz) ==
  ((referenceDate + hostTz * MinutesPerHour) \div MinutesPerDay) * MinutesPerDay
    - hostTz * MinutesPerHour + token

fetchUsnoRiseSetTimes(bodyName, response, date, hostTz) ==
  IF bodyName \notin USNO_BODY_CODES THEN NullTiming
  ELSE IF response.kind # "ok" THEN NullTiming
  ELSE [ riseTime    |-> IF "rise" \in response.fields
                         THEN parseUsnoTime(UsnoToken.rise, date, hostTz) ELSE Null,
         setTime     |-> IF "set" \in response.fields
                         THEN parseUsnoTime(UsnoToken.set, date, hostTz) ELSE Null,
         transitTime |-> IF "transit" \in response.fields
                         THEN parseUsnoTime(UsnoToken.transit, date, hostTz) ELSE Null ]

\* await Promise.all(promises): every per-body call has returned.
UsnoBatchSettled_Any(calls, bodyNames) ==
  \E i \in 1..Len(bodyNames) : calls[bodyNames[i]].state = "done"

UsnoBatchSettled(calls, bodyNames) ==
  \A i \in 1..Len(bodyNames) : calls[bodyNames[i]].state = "done"

\* fetched.forEach(({ name, result }) => { results[name] = result; })
UsnoBatchResults_FirstForAll(calls, bodyNames) ==
  [ name \in Range(bodyNames) |-> calls[bodyNames[1]].result ]

UsnoBatchResults(calls, bodyNames) ==
  [ name \in Range(bodyNames) |-> calls[name].result ]

(***************************************************************************)
(* unnamed/part_007: the Horizons provider.                                *)
(***************************************************************************)
HORIZONS_TARGETS ==
  { "Sun", "Moon", "Mercury", "Venus", "Earth", "Mars", "Jupiter", "Saturn",
    "Uranus", "Neptune" }

\* The tokens of a Horizons text: "Rise 16:09", "Transit 21:18", "Set 02:27".
HorizonsToken == [ rise |-> 969, set |-> 147, transit |-> 1278 ]

\* new Date(referenceDate) with setUTCHours(hours, minutes, 0, 0), then the
\* timezone offset added when one is given.
parseHorizonsTime(token, referenceDate, timezoneOffset) ==
  ToDisplay((referenceDate \div MinutesPerDay) * MinutesPerDay + token, timezoneOffset)

fetchHorizonsRiseSetTimes(bodyName, response, date, timezoneOffset) ==
  IF bodyName \notin HORIZONS_TARGETS THEN NullTiming
  ELSE IF response.kind # "ok" THEN NullTiming
  ELSE [ riseTime    |-> IF "rise" \in response.fields
                         THEN parseHorizonsTime(HorizonsToken.rise, date, timezoneOffset)
                         ELSE Null,
         setTime     |-> IF "set" \in response.fields
                         THEN parseHorizonsTime(HorizonsToken.set, date, timezoneOffset)
                         ELSE Null,
         transitTime |-> IF "transit" \in response.fields
                         THEN parseHorizonsTime(HorizonsToken.transit, date, timezoneOffset)
                         ELSE Null ]

\* await Promise.all(promises)
HorizonsBatchSettled(calls, bodyNames) ==
  \A i \in 1..Len(bodyNames) : calls[bodyNames[i]].state = "done"

\* The results keyed by position in the order the calls completed: the k-th
\* requested name gets the result of the call that finished k-th.
HorizonsBatchResults_InCompletionOrder(calls, bodyNames) ==
  [ name \in Range(bodyNames) |->
      LET k == CHOOSE i \in 1..Len(bodyNames) : bodyNames[i] = name
      IN  calls[CHOOSE other \in Range(bodyNames) : calls[other].finished = k].result ]

\* fetched.forEach(({ name, result }) => { results[name] = result; })
HorizonsBatchResults(calls, bodyNames) ==
  [ name \in Range(bodyNames) |-> calls[name].result ]

(***************************************************************************)
(* unnamed/part_005 and unnamed/part_007: the parsing of one response body *)
(* token by token.  A token is a record: a clock reading (the hours and    *)
(* minutes the pattern \d{1,2}:\d{2} captures, after the A.M./P.M.         *)
(* conversion), a text holding no clock reading, or no token at all; a     *)
(* field of a JSON body may also be a number of milliseconds.              *)
(***************************************************************************)
Clock(hours, minutes) == [ text |-> "clock", hours |-> hours, minutes |-> minutes, epoch |-> 0 ]
Garbled == [ text |-> "garbled", hours |-> 0, minutes |-> 0, epoch |-> 0 ]
NoToken == [ text |-> "none", hours |-> 0, minutes |-> 0, epoch |-> 0 ]
Epoch(instant) == [ text |-> "epoch", hours |-> 0, minutes |-> 0, epoch |-> instant ]

\* parseUsnoTime on the string of a field: null when no pattern matches or
\* the hours or minutes are out of range.
ParseUsnoTimeString(timeStr, referenceDate, hostTz) ==
  IF timeStr.text # "clock" THEN Null
  ELSE IF timeStr.hours > 23 \/ timeStr.minutes > 59 THEN Null
  ELSE parseUsnoTime(timeStr.hours * MinutesPerHour + timeStr.minutes, referenceDate, hostTz)

\* if (riseValue) riseTime = parseUsnoTime(riseValue, date, timezoneOffset)
ParseUsnoValue(value, date, hostTz) ==
  IF value = NoToken THEN Null ELSE ParseUsnoTimeString(value, date, hostTz)

\* The record fetchUsnoRiseSetTimes builds from data.properties.
ParseUsnoProperties(props, date, hostTz) ==
  [ riseTime    |-> ParseUsnoValue(props.rise, date, hostTz),
    setTime     |-> ParseUsnoValue(props.set, date, hostTz),
    transitTime |-> ParseUsnoValue(props.transit, date, hostTz) ]

\* The lines of a Horizons text: one line per event the text names, in the
\* order Rise, Transit, Set.
HorizonsLines(body) ==
  SelectSeq(<< [ label |-> "Rise", token |-> body.rise ],
               [ label |-> "Transit", token |-> body.transit ],
               [ label |-> "Set", token |-> body.set ] >>,
            LAMBDA line : line.token # NoToken)

\* extractTimeFromLine(lines[i] || '')
extractTimeFromLine(lines, i) ==
  IF i <= Len(lines) /\ lines[i].token.text = "clock" THEN lines[i].token ELSE NoToken

\* extractTimeFromLine(line) || extractTimeFromLine(lines[i + 1] || '')
\*   || extractTimeFromLine(lines[i + 2] || '')
TimeMatch(lines, i) ==
  IF extractTimeFromLine(lines, i) # NoToken THEN extractTimeFromLine(lines, i)
  ELSE IF extractTimeFromLine(lines, i + 1) # NoToken THEN extractTimeFromLine(lines, i + 1)
  ELSE extractTimeFromLine(lines, i + 2)

\* The value the text loop gives the field of a label; the hours and
\* minutes go to setUTCHours as captured.
ParseHorizonsLabel(lines, label, date, timezoneOffset) ==
  LET at == { i \in 1..Len(lines) : lines[i].label = label }
  IN  IF at = {} THEN Null
      ELSE LET timeMatch == TimeMatch(lines, CHOOSE i \in at : TRUE)
           IN  IF timeMatch = NoToken THEN Null
               ELSE parseHorizonsTime(timeMatch.hours * MinutesPerHour + timeMatch.minutes,
                                      date, timezoneOffset)

ParseHorizonsText(body, date, timezoneOffset) ==
  LET lines == IF body.format = "text" THEN HorizonsLines(body) ELSE << >>
  IN  [ riseTime    |-> ParseHorizonsLabel(lines, "Rise", date, timezoneOffset),
        setTime     |-> ParseHorizonsLabel(lines, "Set", date, timezoneOffset),
        transitTime |-> ParseHorizonsLabel(lines, "Transit", date, timezoneOffset) ]

\* if (!riseTime && data.rise) riseTime = new Date(data.rise)
NewDate(value) ==
  IF value = NoToken THEN Null
  ELSE IF value.text = "epoch" THEN value.epoch
  ELSE NaN

\* "Check for structured JSON fields", reached when the text gave nothing.
ParseHorizonsJson(body) ==
  IF body.format # "json" THEN NullTiming
  ELSE [ riseTime |-> NewDate(body.rise), setTime |-> NewDate(body.set),
         transitTime |-> NewDate(body.transit) ]

\* The record fetchHorizonsRiseSetTimes builds from a response body.
ParseHorizonsResponse(body, date, timezoneOffset) ==
  LET parsed == ParseHorizonsText(body, date, timezoneOffset)
  IN  IF parsed = NullTiming THEN ParseHorizonsJson(body) ELSE parsed

(***************************************************************************)
(* AsAbove/lib/astronomy.ts: calculateLocalSiderealTime.  Its numbers are  *)
(* millionths (of a degree or of an hour, which the function does not tell *)
(* apart).  A JavaScript number is binary floating point: the result of an *)
(* addition or a product is the nearest representable number, ties to the  *)
(* even one, and the representable numbers are twice as far apart in each  *)
(* next binade.  Here the significand has 24 bits: the numbers below 16    *)
(* are on the grid of millionths, those from 16 to 32 on every second      *)
(* point of it, and so on.                                                 *)
(***************************************************************************)
Million == 1000000
FirstBinade == 16 * Million

\* The distance between neighbouring representable numbers at magnitude a.
RECURSIVE Ulp(_)
Ulp(a) == IF a < FirstBinade THEN 1 ELSE 2 * Ulp(a \div 2)

\* The representable number nearest to x, ties to even.
ToDouble(x) ==
  LET u == Ulp(Abs(x))
      lo == (x \div u) * u
      rest == x - lo
  IN  IF 2 * rest < u THEN lo
      ELSE IF 2 * rest > u THEN lo + u
      ELSE IF (lo \div u) % 2 = 0 THEN lo ELSE lo + u

\* date.getUTCHours()
GetUTCHours(date) == (date % MinutesPerDay) \div MinutesPerHour

\* 0.985647 * daysSinceJ2000 in millionths: 985647 a day, split over the
\* whole days and the minutes left of the time since J2000.0.
LinearTerm(date) ==
  LET m == date - J2000
      q == m \div MinutesPerDay
      r == m % MinutesPerDay
  IN  ToDouble(985647 * q + (985647 * r) \div MinutesPerDay)

\* (100.46 + 0.985647 * daysSinceJ2000 + longitude + 15 * date.getUTCHours()) % 24,
\* the additions from left to right.
LstHoursBeforeOffset(longitude, date) ==
  LET withEpoch == ToDouble(100460000 + LinearTerm(date))
      withLongitude == ToDouble(withEpoch + longitude)
      withHours == ToDouble(withLongitude + 15 * Million * GetUTCHours(date))
  IN  JsMod(withHours, 24 * Million)

\* lstHours >= 0 ? lstHours : lstHours + 24
NormalizeLst(lstHours) ==
  IF lstHours >= 0 THEN lstHours ELSE ToDouble(lstHours + 24 * Million)

\* longitude in millionths of a degree, the result in millionths.
calculateLocalSiderealTime(longitude, date, timezoneOffset) ==
  LET lstHours == LstHoursBeforeOffset(longitude, date)
      adjusted == IF timezoneOffset # Undefined
                  THEN JsMod(ToDouble(lstHours + Million * timezoneOffset), 24 * Million)
                  ELSE lstHours
  IN  NormalizeLst(adjusted)

(***************************************************************************)
(* unnamed/part_007 (planetaryPositions): the table of planetary positions *)
(* and its lookup.  In the table a right ascension is in hundredths of an  *)
(* hour and a declination in tenths of a degree, which holds every literal *)
(* of the table exactly; a date string is the instant of its 00:00Z.  An   *)
(* interpolation factor is the fraction num/den, and an interpolated       *)
(* coordinate is cut down to the table's unit.  Magnitude and distance     *)
(* feed no computation and are not carried.                                *)
(***************************************************************************)
HundredthsPerDay == 2400
HalfTurn == 1200

\* new Date(dateStr + "T00:00:00Z") for the date string of a day number.
parseDate(dayNumber) == dayNumber * MinutesPerDay

Position(ra, dec) == [ rightAscension |-> ra, declination |-> dec ]

NoPosition == [ absent |-> TRUE ]

TabulatedPlanets == { "Jupiter", "Saturn", "Mars", "Venus", "Mercury" }

\* Day numbers 9497, 9527, ...: 2026-01-01, 2026-01-31, 2026-02-01,
\* 2026-02-28, 2026-03-01, 2026-03-31.
PLANETARY_POSITIONS ==
  << [ startDate |-> 9497, endDate |-> 9527,
       positions |-> [ Jupiter |-> Position(1511, 180), Saturn |-> Position(851, 105),
                       Mars |-> Position(588, 190), Venus |-> Position(632, 210),
                       Mercury |-> Position(1100, 165) ] ],
     [ startDate |-> 9528, endDate |-> 9555,
       positions |-> [ Jupiter |-> Position(1530, 182), Saturn |-> Position(870, 107),
                       Mars |-> Position(620, 192), Venus |-> Position(660, 212),
                       Mercury |-> Position(1150, 170) ] ],
     [ startDate |-> 9556, endDate |-> 9586,
       positions |-> [ Jupiter |-> Position(1550, 184), Saturn |-> Position(890, 109),
                       Mars |-> Position(650, 194), Venus |-> Position(690, 214),
                       Mercury |-> Position(1200, 175) ] ] >>

\* entry.positions[planetName], undefined for a name the entry does not hold.
PositionIn(entry, planetName) ==
  IF planetName \in DOMAIN entry.positions THEN entry.positions[planetName]
  ELSE NoPosition

\* Math.abs(ra2 - ra1) > 12
CrossesWrap_Never(ra1, ra2) == FALSE

CrossesWrap(ra1, ra2) == Abs(ra2 - ra1) > HalfTurn

\* interpolatePosition with factor = factor.num / factor.den.
interpolatePosition(pos1, pos2, factor) ==
  LET dec == (pos1.declination * factor.den
                + (pos2.declination - pos1.declination) * factor.num) \div factor.den
      wrap == CrossesWrap(pos1.rightAscension, pos2.rightAscension)
      ra1 == IF wrap /\ ~(pos2.rightAscension > pos1.rightAscension)
             THEN pos1.rightAscension - HundredthsPerDay ELSE pos1.rightAscension
      ra2 == IF wrap /\ pos2.rightAscension > pos1.rightAscension
             THEN pos2.rightAscension - HundredthsPerDay ELSE pos2.rightAscension
      \* ra1 + (ra2 - ra1) * factor, in units of 1/factor.den hundredths
      ra == ra1 * factor.den + (ra2 - ra1) * factor.num
      turn == HundredthsPerDay * factor.den
      raUp == IF ra < 0 THEN ra + turn ELSE ra
      raDown == IF raUp >= turn THEN raUp - turn ELSE raUp
  IN  Position(raDown \div factor.den, dec)

\* (date2.getTime() - date1.getTime()) / (1000 * 60 * 60 * 24), in minutes.
daysBetween(date1, date2) == date2 - date1

\* totalDays > 0 ? daysFromStart / totalDays : 0; a quotient by zero is the
\* NaN of 0/0, written as the fraction 0/0.
InterpolationFactor_Unguarded(startDate, endDate, targetDate) ==
  [ num |-> daysBetween(startDate, targetDate), den |-> daysBetween(startDate, endDate) ]

InterpolationFactor(startDate, endDate, targetDate) ==
  LET totalDays == daysBetween(startDate, endDate)
      daysFromStart == daysBetween(startDate, targetDate)
  IN  IF totalDays > 0 THEN [ num |-> daysFromStart, den |-> totalDays ]
      ELSE [ num |-> 0, den |-> 1 ]

\* Lines 509-514: the factor of the target date in its range, then the
\* interpolation towards the next range's position.
InterpolateInRange(position, nextPosition, startDate, endDate, targetDate) ==
  LET factor == InterpolationFactor(startDate, endDate, targetDate)
  IN  IF factor.den = 0 THEN Position(NaN, NaN)   \* arithmetic on a NaN factor
      ELSE interpolatePosition(position, nextPosition, factor)

\* date.toISOString().split('T')[0], parsed again: 00:00Z of the UTC day.
TargetDate(date) == (date \div MinutesPerDay) * MinutesPerDay

\* targetDate >= startDate && targetDate <= endDate
Contains_EndExclusive(entry, targetDate) ==
  targetDate >= parseDate(entry.startDate) /\ targetDate < parseDate(entry.endDate)

Contains(entry, targetDate) ==
  targetDate >= parseDate(entry.startDate) /\ targetDate <= parseDate(entry.endDate)

\* What the loop body returns for entry i, NoPosition when it goes on to i + 1.
LookupEntry(table, i, planetName, targetDate) ==
  LET entry == table[i]
      position == PositionIn(entry, planetName)
  IN  IF ~Contains(entry, targetDate) \/ position = NoPosition THEN NoPosition
      ELSE IF i < Len(table) /\ PositionIn(table[i + 1], planetName) # NoPosition
      THEN InterpolateInRange(position, PositionIn(table[i + 1], planetName),
                              parseDate(entry.startDate), parseDate(entry.endDate),
                              targetDate)
      ELSE position

\* firstEntry.positions[planetName] || null for a date before the table.
ClampBefore_Interpolated(table, planetName, targetDate) ==
  IF PositionIn(table[1], planetName) # NoPosition /\ Len(table) > 1
     /\ PositionIn(table[2], planetName) # NoPosition
  THEN interpolatePosition(PositionIn(table[1], planetName),
                           PositionIn(table[2], planetName), [ num |-> 1, den |-> 2 ])
  ELSE PositionIn(table[1], planetName)

ClampBefore(table, planetName, targetDate) == PositionIn(table[1], planetName)

\* lastEntry.positions[planetName] || null for a date after the table.
ClampAfter(table, planetName, targetDate) == PositionIn(table[Len(table)], planetName)

\* fetchPlanetaryPosition over a table; NoPosition is its null.
LookupPosition(table, planetName, date) ==
  LET targetDate == TargetDate(date)
      hits == { i \in 1..Len(table) :
                  LookupEntry(table, i, planetName, targetDate) # NoPosition }
  IN  IF hits # {}
      THEN LookupEntry(table, CHOOSE i \in hits : \A j \in hits : i <= j,
                       planetName, targetDate)
      ELSE IF Len(table) > 0 /\ targetDate < parseDate(table[1].startDate)
      THEN ClampBefore(table, planetName, targetDate)
      ELSE IF Len(table) > 0 /\ targetDate > parseDate(table[Len(table)].endDate)
      THEN ClampAfter(table, planetName, targetDate)
      ELSE NoPosition

fetchPlanetaryPosition(planetName, date) ==
  LookupPosition(PLANETARY_POSITIONS, planetName, date)

(***************************************************************************)
(* AsAbove/lib/astronomy.ts: calculateAltitude and calculateAzimuth, in    *)
(* whole degrees.  Double arithmetic rounds every product and quotient.    *)
(* Where the exact value of an argument of Math.asin or Math.acos is 1 or  *)
(* -1 the rounded argument is just inside, exactly on or just outside the  *)
(* domain, and the function returns accordingly the exact angle or NaN:    *)
(* both are outcomes here.  Where the exact denominator of cosAz is 0 the  *)
(* double denominator is of the order of 1e-17 and the quotient is a ratio *)
(* of rounding residues.                                                   *)
(***************************************************************************)
\* sinAlt as the fraction num/den, in millionths.
SinAlt(declination, latitude, hourAngle) ==
  [ num |-> Sin(declination) * Sin(latitude)
              + (Cos(declination) * Cos(latitude) * Cos(hourAngle)) \div 1000,
    den |-> Million ]

\* The values (Math.asin(sinAlt) * 180) / Math.PI can take.
calculateAltitude(declination, latitude, hourAngle) ==
  LET sinAlt == SinAlt(declination, latitude, hourAngle)
  IN  IF Abs(sinAlt.num) >= sinAlt.den
      THEN { NaN, IF sinAlt.num > 0 THEN 90 ELSE 0 - 90 }
      ELSE { 90 - AcosDegrees(sinAlt) }

\* cosAz for one altitude, as the fraction num/den with den >= 0.
CosAz(declination, latitude, altitude) ==
  [ num |-> Sin(declination) * 1000 - Sin(latitude) * Sin(altitude),
    den |-> Cos(latitude) * Cos(altitude) ]

\* The exact cosAz is 1 or -1: the body is on the meridian or at a
\* celestial pole.
DueNorthOrSouth(declination, hourAngle) ==
  hourAngle % 180 = 0 \/ Abs(declination) = 90

\* The values (Math.acos(cosAz) * 180) / Math.PI can take; the argument
\* goes to Math.acos as computed.
AcosOfCosAz(cosAz, dueNorthOrSouth) ==
  IF cosAz.den = 0 THEN { NaN, 90, 180 }
  ELSE IF dueNorthOrSouth \/ Abs(cosAz.num) >= cosAz.den
  THEN { NaN, IF cosAz.num > 0 THEN 0 ELSE 180 }
  ELSE { AcosDegrees(cosAz) }

\* Math.sin(haRad) > 0; Math.sin(Math.PI) is 1.2246e-16, above 0.
SinIsPositive(hourAngle) == Sin(hourAngle) > 0 \/ hourAngle % 360 = 180

\* if (Math.sin(haRad) > 0) azimuth = 360 - azimuth
MirrorWest(azimuth, hourAngle) ==
  IF azimuth # NaN /\ SinIsPositive(hourAngle) THEN 360 - azimuth ELSE azimuth

\* The values calculateAzimuth can return.
calculateAzimuth(declination, latitude, hourAngle) ==
  { MirrorWest(azimuth, hourAngle) :
      azimuth \in UNION { IF altitude = NaN THEN { NaN }
                          ELSE AcosOfCosAz(CosAz(declination, latitude, altitude),
                                           DueNorthOrSouth(declination, hourAngle)) :
                          altitude \in calculateAltitude(declination, latitude, hourAngle) } }

(***************************************************************************)
(* AsAbove/lib/astronomy.ts: isMeteorShowerActive                          *)
(***************************************************************************)
ShowerNames == { "Perseids", "Geminids", "Leonids", "Lyrids" }

meteorShowers ==
  [ name \in ShowerNames |->
      CASE name = "Perseids" -> [ startMonth |-> 7,  startDay |-> 17, endMonth |-> 8,  endDay |-> 24 ]
        [] name = "Geminids" -> [ startMonth |-> 11, startDay |-> 4,  endMonth |-> 12, endDay |-> 17 ]
        [] name = "Leonids"  -> [ startMonth |-> 11, startDay |-> 6,  endMonth |-> 11, endDay |-> 30 ]
        [] name = "Lyrids"   -> [ startMonth |-> 4,  startDay |-> 16, endMonth |-> 4,  endDay |-> 25 ] ]

\* currentMonth is date.getMonth() + 1 and currentDay is date.getDate(),
\* both read in the host's time zone.
isMeteorShowerActive(name, currentMonth, currentDay) ==
  IF name \notin DOMAIN meteorShowers THEN FALSE
  ELSE LET shower == meteorShowers[name]
       IN  IF currentMonth = shower.startMonth /\ currentDay >= shower.startDay THEN TRUE
           ELSE IF currentMonth = shower.endMonth /\ currentDay <= shower.endDay THEN TRUE
           ELSE IF currentMonth > shower.startMonth /\ currentMonth < shower.endMonth THEN TRUE
           ELSE FALSE

(***************************************************************************)
(* AsAbove/lib/astronomy.ts: generateGalaxyPattern.  A point of the        *)
(* pattern is given by its radius from the centre, in whole units; its     *)
(* angle is fixed by its index.  random[i] is Math.random() * 4 of the     *)
(* i-th core point.                                                        *)
(***************************************************************************)
CorePoints == 8
ArmPoints == 15

generateGalaxyPattern(random) ==
  [ core |-> [ i \in 1..CorePoints |-> 8 + random[i] ],
    arms |-> [ arm \in 1..2 |-> [ i \in 1..ArmPoints |-> 12 + ((i - 1) * 35) \div 15 ] ] ]

(***************************************************************************)
(* AsAbove/lib/astronomy.ts: getMockCelestialObjects                       *)
(***************************************************************************)
MaxBodies == 2

\* The planets and the moon in the order of the objects array, with the
\* literal each falls back to when the position table gives nothing for it
\* (`?? 3.2`, `?? 17.0`, ...) and the Moon's fixed literal: right ascension
\* in minutes of time, declination in whole degrees.
PlanetCatalog ==
  << [ name |-> "Jupiter", type |-> "planet", rightAscension |-> 192, declination |-> 17 ],
     [ name |-> "Mars",    type |-> "planet", rightAscension |-> 750, declination |-> 18 ],
     [ name |-> "Venus",   type |-> "planet", rightAscension |-> 390, declination |-> 20 ],
     [ name |-> "Saturn",  type |-> "planet", rightAscension |-> 48,  declination |-> 9 ],
     [ name |-> "Moon",    type |-> "moon",   rightAscension |-> 510, declination |-> 15 ] >>

\* The objects array before the table's positions are put in: Earth, the
\* first MaxBodies planets, two stars, a constellation and a meteor shower.
Objects ==
  << [ name |-> "Earth", type |-> "planet", rightAscension |-> 0, declination |-> 0 ] >>
  \o SubSeq(PlanetCatalog, 1, MaxBodies)
  \o << [ name |-> "Sirius",     type |-> "star",          rightAscension |-> 405, declination |-> 0 - 17 ],
        [ name |-> "Polaris",    type |-> "star",          rightAscension |-> 152, declination |-> 89 ],
        [ name |-> "Big Dipper", type |-> "constellation", rightAscension |-> 660, declination |-> 60 ],
        [ name |-> "Perseids",   type |-> "meteor",        rightAscension |-> 192, declination |-> 58 ] >>

\* fetchMultiplePlanetaryPositions: an entry for every name with a position.
fetchMultiplePlanetaryPositions(names, date) ==
  [ name \in { n \in names : fetchPlanetaryPosition(n, date) # NoPosition } |->
      fetchPlanetaryPosition(name, date) ]

\* Hundredths of an hour to minutes of time, tenths of a degree to degrees.
ToMinutesOfTime(ra) == (ra * 6 + 5) \div 10
ToWholeDegrees(dec) == (dec + 5) \div 10

\* planetaryPositions.X?.rightAscension ?? literal, and the same for the
\* declination.
WithPosition(obj, planetaryPositions) ==
  IF obj.type = "planet" /\ obj.name \in DOMAIN planetaryPositions
  THEN [ obj EXCEPT !.rightAscension =
                       ToMinutesOfTime(planetaryPositions[obj.name].rightAscension),
                    !.declination =
                       ToWholeDegrees(planetaryPositions[obj.name].declination) ]
  ELSE obj

\* The objects array of a request for the given date.
ObjectsOn(date) ==
  LET planetaryPositions == fetchMultiplePlanetaryPositions(TabulatedPlanets, date)
  IN  [ i \in 1..Len(Objects) |-> WithPosition(Objects[i], planetaryPositions) ]

ObjectNames == { Objects[i].name : i \in 1..Len(Objects) }

IsPlanetOrMoon(obj) == (obj.type = "planet" \/ obj.type = "moon") /\ obj.name # "Earth"

NameOf(obj) == obj.name

\* objects.filter(planet or moon, not Earth).map(obj => obj.name)
planetNames ==
  LET kept == SelectSeq(Objects, IsPlanetOrMoon)
  IN  [ i \in 1..Len(kept) |-> NameOf(kept[i]) ]

NoEntry == [ absent |-> TRUE ]

\* riseTime || setTime || transitTime: a Date is truthy, null is not.
HasAnyField(r) == r.riseTime # Null \/ r.setTime # Null \/ r.transitTime # Null

\* "Convert USNO results": a body gets an entry when USNO gave it a field.
ConvertUsnoResults(results) ==
  [ name \in Range(planetNames) |->
      IF HasAnyField(results[name]) THEN results[name] ELSE NoEntry ]

\* The filter that selects the bodies sent to Horizons.
IsMissing_Always(api, name) == TRUE

IsMissing(api, name) ==
  api[name] = NoEntry \/ ~HasAnyField(api[name])

MissingPlanets(api) ==
  LET missing(name) == IsMissing(api, name)
  IN  SelectSeq(planetNames, missing)

\* "Merge Horizons results": a body of the Horizons batch takes the Horizons
\* record when that record holds a field.
MergeHorizonsResults(api, results) ==
  [ name \in Range(planetNames) |->
      IF name \in DOMAIN results /\ HasAnyField(results[name])
      THEN results[name] ELSE api[name] ]

NoTiming ==
  [ riseTime |-> Null, setTime |-> Null, transitTime |-> Null,
    bestViewingStart |-> Null, bestViewingEnd |-> Null ]

\* Math.abs(declination) > (90 - Math.abs(latitude))
IsCircumpolar(declination, latitude) == Abs(declination) > 90 - Abs(latitude)

\* The callback of objects.map for one object.
MapObject(obj, api, request) ==
  LET apiData == IF obj.name \in DOMAIN api THEN api[obj.name] ELSE NoEntry
  IN  IF obj.name = "Polaris" \/ obj.type = "meteor" THEN NoTiming
      ELSE IF IsCircumpolar(obj.declination, request.latitude) /\ obj.declination > 0
      THEN NoTiming
      ELSE IF apiData # NoEntry /\ HasAnyField(apiData)
      THEN LET viewingWindow ==
                 calculateBestViewingWindow(obj.rightAscension, obj.declination,
                   request.latitude, request.longitude, request.date,
                   request.timezoneOffset, apiData.transitTime, request.hostTz)
           IN  [ riseTime |-> apiData.riseTime, setTime |-> apiData.setTime,
                 transitTime |-> apiData.transitTime,
                 bestViewingStart |-> viewingWindow.startTime,
                 bestViewingEnd |-> viewingWindow.endTime ]
      ELSE LET riseSetResult ==
                 calculateRiseSetTimes(obj.rightAscension, obj.declination,
                   request.latitude, request.longitude, request.date,
                   request.timezoneOffset, request.hostTz)
               viewingWindow ==
                 calculateBestViewingWindow(obj.rightAscension, obj.declination,
                   request.latitude, request.longitude, request.date,
                   request.timezoneOffset, Null, request.hostTz)
           IN  [ riseTime |-> riseSetResult.riseTime, setTime |-> riseSetResult.setTime,
                 transitTime |-> riseSetResult.transitTime,
                 bestViewingStart |-> viewingWindow.startTime,
                 bestViewingEnd |-> viewingWindow.endTime ]

\* return objects.map(...), keyed by the object's name.
MapObjects(api, request) ==
  [ name \in ObjectNames |->
      MapObject(CHOOSE obj \in Range(ObjectsOn(request.date)) : obj.name = name,
                api, request) ]

(***************************************************************************)
(* Inputs of the pure functions.                                           *)
(***************************************************************************)
\* 2026-01-15T00:00Z is 9511 days after 2000-01-01T00:00Z.
BaseDay == 9511
NumDays == 2

Latitudes == { 0 - 90, 0 - 45, 0, 41, 45, 80, 90 }
Declinations == { 0 - 60, 0 - 45, 0 - 17, 0, 18, 45, 89 }
RightAscensions == { 0, 405, 907 }
\* Instants of the request: 20:00Z on each day of the window.
Dates == { (BaseDay + k) * MinutesPerDay + 20 * MinutesPerHour : k \in 0..(NumDays - 1) }
\* One instant in every hour of the first day, at half past.
HalfPastEveryHour == { BaseDay * MinutesPerDay + h * MinutesPerHour + 30 : h \in 0..23 }
\* One instant in every hour of the first day, at twenty to.
TwentyToEveryHour == { BaseDay * MinutesPerDay + h * MinutesPerHour + 40 : h \in 0..23 }
\* riseTime - currentTime, in minutes.
RiseDeltas == { 0 - 5, 0, 10, 120, 121 }
Altitudes == { 0 - 3, 0, 5, NaN }

Returned == ret # NoResult

\* No request to getMockCelestialObjects is in progress.
ResolverIdle ==
  /\ pc = "idle"
  /\ usno = << >> /\ horizons = << >>
  /\ usnoCalls = << >> /\ horizonsCalls = << >>
  /\ usnoResults = << >> /\ horizonsResults = << >>
  /\ apiResults = << >> /\ missingPlanets = << >>

(***************************************************************************)
(* SpecRiseSet: calculateRiseSetTimes applied to every input of the sets.  *)
(***************************************************************************)
InitRiseSet ==
  /\ call \in [ fn : {"calculateRiseSetTimes"},
                rightAscension : RightAscensions, declination : Declinations,
                latitude : Latitudes, longitude : {0 - 74},
                date : Dates, timezoneOffset : {Undefined, 0 - 5}, hostTz : {0} ]
  /\ ret = NoResult
  /\ ResolverIdle

CallRiseSet ==
  /\ call.fn = "calculateRiseSetTimes"
  /\ ret = NoResult
  /\ ret' = calculateRiseSetTimes(call.rightAscension, call.declination, call.latitude,
                                  call.longitude, call.date, call.timezoneOffset, call.hostTz)
  /\ UNCHANGED << call, resolverVars >>

NextRiseSet == CallRiseSet

SpecRiseSet == InitRiseSet /\ [][NextRiseSet]_vars

(***************************************************************************)
(* SpecWindow: calculateBestViewingWindow with and without a supplied      *)
(* transit time, the supplied one falling in every hour of the day.        *)
(***************************************************************************)
InitWindow ==
  /\ call \in [ fn : {"calculateBestViewingWindow"},
                rightAscension : RightAscensions, declination : {18},
                latitude : {0, 41, 60, 80}, longitude : {0 - 74, 0},
                date : Dates, timezoneOffset : {Undefined, 0 - 5},
                transitTimeOverride : {Null} \cup HalfPastEveryHour, hostTz : {0} ]
  /\ ret = NoResult
  /\ ResolverIdle

CallWindow ==
  /\ call.fn = "calculateBestViewingWindow"
  /\ ret = NoResult
  /\ ret' = calculateBestViewingWindow(call.rightAscension, call.declination, call.latitude,
                                       call.longitude, call.date, call.timezoneOffset,
                                       call.transitTimeOverride, call.hostTz)
  /\ UNCHANGED << call, resolverVars >>

NextWindow == CallWindow

SpecWindow == InitWindow /\ [][NextWindow]_vars

\* The sunset and sunrise the planner computes for the call in progress.
WindowSunset ==
  calculateSunset(call.latitude, call.longitude, call.date, call.timezoneOffset, call.hostTz)
WindowSunrise ==
  calculateSunrise(call.latitude, call.longitude, NextDay(call.date), call.timezoneOffset, call.hostTz)

(***************************************************************************)
(* SpecVisibility: getVisibilityStatus over altitudes, rise times and      *)
(* every hour of the clock.                                                *)
(***************************************************************************)
InitVisibility ==
  /\ \E now \in TwentyToEveryHour, alt \in Altitudes, hostTz \in {0, 0 - 5} :
     \E rise \in {Null, NaN} \cup { now + d : d \in RiseDeltas } :
       call = [ fn |-> "getVisibilityStatus", altitude |-> alt, riseTime |-> rise,
                setTime |-> Null, currentTime |-> now, hostTz |-> hostTz ]
  /\ ret = NoResult
  /\ ResolverIdle

CallVisibility ==
  /\ call.fn = "getVisibilityStatus"
  /\ ret = NoResult
  /\ ret' = getVisibilityStatus(call.altitude, call.riseTime, call.setTime,
                                call.currentTime, call.hostTz)
  /\ UNCHANGED << call, resolverVars >>

NextVisibility == CallVisibility

SpecVisibility == InitVisibility /\ [][NextVisibility]_vars

(***************************************************************************)
(* SpecInterpolate: the interpolation step of the lookup (the factor of a  *)
(* date in its range, then interpolatePosition) on every input of the sets.*)
(***************************************************************************)
InterpolationRAs == { 0, 20, 600, 1200, 1220, 2390 }
InterpolationDecs == { 0 - 100, 182 }
\* Lengths of a range in days, the zero-length range included.
RangeLengths == { 0, 1, 4 }
RangeStart == parseDate(PLANETARY_POSITIONS[1].startDate)

InitInterpolate ==
  /\ \E len \in RangeLengths :
       call \in [ fn : {"interpolatePosition"},
                  pos1 : { Position(ra, 180) : ra \in InterpolationRAs },
                  pos2 : { Position(x[1], x[2]) :
                             x \in InterpolationRAs \X InterpolationDecs },
                  startDate : {RangeStart},
                  endDate : {RangeStart + len * MinutesPerDay},
                  targetDate : { RangeStart + k * MinutesPerDay : k \in 0..len } ]
  /\ ret = NoResult
  /\ ResolverIdle

CallInterpolate ==
  /\ call.fn = "interpolatePosition"
  /\ ret = NoResult
  /\ ret' = InterpolateInRange(call.pos1, call.pos2, call.startDate, call.endDate,
                               call.targetDate)
  /\ UNCHANGED << call, resolverVars >>

NextInterpolate == CallInterpolate

SpecInterpolate == InitInterpolate /\ [][NextInterpolate]_vars

(***************************************************************************)
(* SpecPosition: fetchPlanetaryPosition for every body and every date from *)
(* two days before the table to two days after it.                         *)
(***************************************************************************)
DaysAround == 2
FirstDay == PLANETARY_POSITIONS[1].startDate
LastDay == PLANETARY_POSITIONS[Len(PLANETARY_POSITIONS)].endDate
LookupDates ==
  { parseDate(d) + t : d \in (FirstDay - DaysAround)..(LastDay + DaysAround),
                       t \in { 0, 20 * MinutesPerHour } }

InitPosition ==
  /\ call \in [ fn : {"fetchPlanetaryPosition"},
                planetName : TabulatedPlanets \cup {"Moon"},
                date : LookupDates ]
  /\ ret = NoResult
  /\ ResolverIdle

CallPosition ==
  /\ call.fn = "fetchPlanetaryPosition"
  /\ ret = NoResult
  /\ ret' = fetchPlanetaryPosition(call.planetName, call.date)
  /\ UNCHANGED << call, resolverVars >>

NextPosition == CallPosition

SpecPosition == InitPosition /\ [][NextPosition]_vars

(***************************************************************************)
(* SpecMapObject: the callback of objects.map in getMockCelestialObjects   *)
(* for every object, observers of both hemispheres, and apiResults empty,  *)
(* holding a full record for every planet, or holding a transit time only. *)
(***************************************************************************)
MergeLatitudes == { 0 - 80, 0 - 41, 41, 80 }

ApiEmpty == [ name \in Range(planetNames) |-> NoEntry ]
ApiFull(date, hostTz) ==
  [ name \in Range(planetNames) |->
      [ riseTime    |-> parseUsnoTime(UsnoToken.rise, date, hostTz),
        setTime     |-> parseUsnoTime(UsnoToken.set, date, hostTz),
        transitTime |-> parseUsnoTime(UsnoToken.transit, date, hostTz) ] ]
\* apiResults holding only a transit time, at 03:30, 12:30 and 20:30.
SuppliedTransits == { BaseDay * MinutesPerDay + h * MinutesPerHour + 30 : h \in {3, 12, 20} }
ApiTransitAt(transitTime) ==
  [ name \in Range(planetNames) |->
      [ riseTime |-> Null, setTime |-> Null, transitTime |-> transitTime ] ]

InitMapObject ==
  /\ \E date \in Dates :
       call \in [ fn : {"objects.map"},
                  obj : Range(ObjectsOn(date)),
                  api : { ApiEmpty, ApiFull(date, 0) }
                          \cup { ApiTransitAt(t) : t \in SuppliedTransits },
                  latitude : MergeLatitudes, longitude : {0 - 74},
                  date : {date}, timezoneOffset : {0 - 5}, hostTz : {0} ]
  /\ ret = NoResult
  /\ ResolverIdle

CallMapObject ==
  /\ call.fn = "objects.map"
  /\ ret = NoResult
  /\ ret' = MapObject(call.obj, call.api, call)
  /\ UNCHANGED << call, resolverVars >>

NextMapObject == CallMapObject

SpecMapObject == InitMapObject /\ [][NextMapObject]_vars

(***************************************************************************)
(* SpecTransit: the transit offset of calculateRiseSetTimes (lines 92-98)  *)
(* for right ascensions and noon sidereal times over the whole day, both   *)
(* in minutes of time.                                                     *)
(***************************************************************************)
TransitRAs == { 0, 60, 405, 720, 907, 1439 }
\* Every half hour of sidereal time, and the last minute of the day.
NoonLsts == { 30 * k : k \in 0..47 } \cup { 1439 }

InitTransit ==
  /\ call \in [ fn : {"hoursToTransit"}, rightAscension : TransitRAs,
                lstAtNoon : NoonLsts ]
  /\ ret = NoResult
  /\ ResolverIdle

CallTransit ==
  /\ call.fn = "hoursToTransit"
  /\ ret = NoResult
  /\ ret' = [ hoursToTransit |-> HoursToTransit(call.rightAscension, call.lstAtNoon) ]
  /\ UNCHANGED << call, resolverVars >>

NextTransit == CallTransit

SpecTransit == InitTransit /\ [][NextTransit]_vars

(***************************************************************************)
(* SpecSidereal: calculateLocalSiderealTime for instants before, at and    *)
(* after the J2000.0 epoch, longitudes over [-180, 180] in millionths of a *)
(* degree, and with and without a timezone offset.                         *)
(***************************************************************************)
\* 1999-09-27T00:29Z, 1999-12-31T23:40Z, 2000-01-01T12:00Z, 2001-01-01T13:30Z
\* and 2002-03-11T20:30Z.
LstDates ==
  { (0 - 96) * MinutesPerDay + 29, 0 - 20, J2000,
    366 * MinutesPerDay + 13 * MinutesPerHour + 30,
    800 * MinutesPerDay + 20 * MinutesPerHour + 30 }
LstLongitudes ==
  { 0 - 180 * Million, 0 - 74 * Million, 0 - 5364913, 0, 100 * Million, 180 * Million }

InitSidereal ==
  /\ call \in [ fn : {"calculateLocalSiderealTime"}, longitude : LstLongitudes,
                date : LstDates, timezoneOffset : { Undefined, 0 - 5, 0, 5 } ]
  /\ ret = NoResult
  /\ ResolverIdle

CallSidereal ==
  /\ call.fn = "calculateLocalSiderealTime"
  /\ ret = NoResult
  /\ ret' = [ lst |-> calculateLocalSiderealTime(call.longitude, call.date,
                                                 call.timezoneOffset) ]
  /\ UNCHANGED << call, resolverVars >>

NextSidereal == CallSidereal

SpecSidereal == InitSidereal /\ [][NextSidereal]_vars

(***************************************************************************)
(* SpecTwice: a function evaluated twice with the same arguments.  What an *)
(* evaluation reads besides its arguments (the timezone of the host behind *)
(* getFullYear/getMonth/getDate/getHours, and Math.random) is chosen anew  *)
(* for each evaluation.                                                    *)
(***************************************************************************)
HostTimezones == { 0, 5 }
\* Math.random() * 4 of one core point, to the whole unit below.
Randoms == [ 1..CorePoints -> { 0, 2 } ]

InitTwice ==
  /\ \/ call \in [ fn : {"twice"}, function : {"calculateRiseSetTimes"},
                   rightAscension : {405}, declination : {0 - 17, 18},
                   latitude : {41}, longitude : {0 - 74}, date : Dates,
                   timezoneOffset : {Undefined, 0 - 5} ]
     \/ call \in [ fn : {"twice"}, function : {"getVisibilityStatus"},
                   altitude : {0 - 3, 5}, riseTime : {Null}, setTime : {Null},
                   currentTime : TwentyToEveryHour ]
     \/ call = [ fn |-> "twice", function |-> "generateGalaxyPattern" ]
  /\ ret = [ evaluations |-> << >> ]
  /\ ResolverIdle

\* One evaluation of call.function on call's arguments.
Evaluation(hostTz, random) ==
  CASE call.function = "calculateRiseSetTimes" ->
         calculateRiseSetTimes(call.rightAscension, call.declination, call.latitude,
                               call.longitude, call.date, call.timezoneOffset, hostTz)
    [] call.function = "getVisibilityStatus" ->
         getVisibilityStatus(call.altitude, call.riseTime, call.setTime,
                             call.currentTime, hostTz)
    [] call.function = "generateGalaxyPattern" -> generateGalaxyPattern(random)

Evaluate ==
  /\ call.fn = "twice"
  /\ Len(ret.evaluations) < 2
  /\ \E hostTz \in HostTimezones, random \in Randoms :
       ret' = [ evaluations |-> Append(ret.evaluations, Evaluation(hostTz, random)) ]
  /\ UNCHANGED << call, resolverVars >>

NextTwice == Evaluate

SpecTwice == InitTwice /\ [][NextTwice]_vars

(***************************************************************************)
(* SpecAzimuth: calculateAzimuth for observers from pole to pole, bodies   *)
(* from the horizon to the zenith, and hour angles on and off the          *)
(* meridian.                                                               *)
(***************************************************************************)
AzimuthLatitudes == { 0 - 90, 0 - 41, 0, 41, 90 }
AzimuthDeclinations == { 0 - 60, 0 - 17, 0, 18, 41, 90 }
HourAngles == { 0, 45, 90, 180, 270 }

InitAzimuth ==
  /\ call \in [ fn : {"calculateAzimuth"}, declination : AzimuthDeclinations,
                latitude : AzimuthLatitudes, hourAngle : HourAngles ]
  /\ ret = NoResult
  /\ ResolverIdle

CallAzimuth ==
  /\ call.fn = "calculateAzimuth"
  /\ ret = NoResult
  /\ \E azimuth \in calculateAzimuth(call.declination, call.latitude, call.hourAngle) :
       ret' = [ azimuth |-> azimuth ]
  /\ UNCHANGED << call, resolverVars >>

NextAzimuth == CallAzimuth

SpecAzimuth == InitAzimuth /\ [][NextAzimuth]_vars

(***************************************************************************)
(* SpecParse: one response body of each provider, every field holding a    *)
(* well-formed token, an ill-formed one or none.                           *)
(***************************************************************************)
\* "6:27", "25:61" and a text with no clock reading in it.
TextTokens == { NoToken, Clock(6, 27), Clock(25, 61), Garbled }
\* A number of milliseconds and a text no Date can be made from.
JsonValues == { NoToken, Epoch(BaseDay * MinutesPerDay + 387), Garbled }

InitParse ==
  /\ \/ call \in [ fn : {"fetchUsnoRiseSetTimes"}, format : {"json"},
                   rise : TextTokens, set : TextTokens, transit : TextTokens,
                   date : Dates, timezoneOffset : {0 - 5}, hostTz : {0} ]
     \/ call \in [ fn : {"fetchHorizonsRiseSetTimes"}, format : {"text"},
                   rise : TextTokens, set : TextTokens, transit : TextTokens,
                   date : Dates, timezoneOffset : {0 - 5}, hostTz : {0} ]
     \/ call \in [ fn : {"fetchHorizonsRiseSetTimes"}, format : {"json"},
                   rise : JsonValues, set : JsonValues, transit : JsonValues,
                   date : Dates, timezoneOffset : {0 - 5}, hostTz : {0} ]
  /\ ret = NoResult
  /\ ResolverIdle

ParseUsno ==
  /\ call.fn = "fetchUsnoRiseSetTimes"
  /\ ret = NoResult
  /\ ret' = ParseUsnoProperties(call, call.date, call.hostTz)
  /\ UNCHANGED << call, resolverVars >>

ParseHorizons ==
  /\ call.fn = "fetchHorizonsRiseSetTimes"
  /\ ret = NoResult
  /\ ret' = ParseHorizonsResponse(call, call.date, call.timezoneOffset)
  /\ UNCHANGED << call, resolverVars >>

NextParse == ParseUsno \/ ParseHorizons

SpecParse == InitParse /\ [][NextParse]_vars

(***************************************************************************)
(* SpecHourAngle: calculateHourAngleAtHorizon for latitudes and            *)
(* declinations from -90 to 90, the pairs with |tan tan| = 1 among them.   *)
(***************************************************************************)
HorizonLatitudes == { 0 - 90, 0 - 60, 0 - 45, 0 - 30, 0, 30, 45, 60, 90 }
HorizonDeclinations == HorizonLatitudes \cup { 0 - 17, 18 }

InitHourAngle ==
  /\ call \in [ fn : {"calculateHourAngleAtHorizon"},
                declination : HorizonDeclinations, latitude : HorizonLatitudes ]
  /\ ret = NoResult
  /\ ResolverIdle

CallHourAngle ==
  /\ call.fn = "calculateHourAngleAtHorizon"
  /\ ret = NoResult
  /\ ret' = [ hourAngle |-> calculateHourAngleAtHorizon(call.declination, call.latitude) ]
  /\ UNCHANGED << call, resolverVars >>

NextHourAngle == CallHourAngle

SpecHourAngle == InitHourAngle /\ [][NextHourAngle]_vars

(***************************************************************************)
(* SpecSweep: calculateBestViewingWindow called for one input after the    *)
(* other: every latitude of the sweep, winter and summer dates, and a      *)
(* transit time supplied in every second hour of the day or not at all.    *)
(* The caller records in call.late whether some call of the daytime branch *)
(* so far returned an endTime later than the sunrise bound.                *)
(***************************************************************************)
SweepLatitudes == << 0, 41, 60, 65, 80 >>

\* 20:00Z on the days of the window, then on 2026-06-21.
SweepDate(k) ==
  IF k <= NumDays THEN (BaseDay + k - 1) * MinutesPerDay + 20 * MinutesPerHour
  ELSE (BaseDay + 157) * MinutesPerDay + 20 * MinutesPerHour

\* No supplied transit, then one at 01:30, 03:30, ..., 23:30 of the date.
SweepTransit(date, k) ==
  IF k = 0 THEN Null
  ELSE TargetDate(date) + (2 * k - 1) * MinutesPerHour + 30

SweepSize == Len(SweepLatitudes) * (NumDays + 1) * 13

IsDaytimeTransit(transitTime, hostTz) ==
  ~IsEveningTransit(GetHours(transitTime, hostTz)) /\ ~IsMorningTransit(GetHours(transitTime, hostTz))

SweepCall(i, late) ==
  LET j == i - 1
      date == SweepDate(((j \div Len(SweepLatitudes)) % (NumDays + 1)) + 1)
  IN  [ fn |-> "calculateBestViewingWindow", rightAscension |-> 405, declination |-> 18,
        latitude |-> SweepLatitudes[(j % Len(SweepLatitudes)) + 1], longitude |-> 0 - 74,
        date |-> date, timezoneOffset |-> 0 - 5,
        transitTimeOverride |-> SweepTransit(date, j \div (Len(SweepLatitudes) * (NumDays + 1))),
        hostTz |-> 0, index |-> i, late |-> late ]

InitSweep ==
  /\ call = SweepCall(1, FALSE)
  /\ ret = NoResult
  /\ ResolverIdle

SweepEvaluate ==
  /\ call.fn = "calculateBestViewingWindow" /\ "index" \in DOMAIN call
  /\ ret = NoResult
  /\ ret' = calculateBestViewingWindow(call.rightAscension, call.declination, call.latitude,
                                       call.longitude, call.date, call.timezoneOffset,
                                       call.transitTimeOverride, call.hostTz)
  /\ call' = [ call EXCEPT !.late =
                 @ \/ ( /\ IsDaytimeTransit(ret'.peakTime, call.hostTz)
                        /\ DateGt(ret'.endTime, WindowSunrise) ) ]
  /\ UNCHANGED resolverVars

SweepAdvance ==
  /\ call.fn = "calculateBestViewingWindow" /\ "index" \in DOMAIN call
  /\ ret # NoResult
  /\ call.index < SweepSize
  /\ call' = SweepCall(call.index + 1, call.late)
  /\ ret' = NoResult
  /\ UNCHANGED resolverVars

NextSweep == SweepEvaluate \/ SweepAdvance

SpecSweep == InitSweep /\ [][NextSweep]_vars

(***************************************************************************)
(* SpecMeteor: isMeteorShowerActive for the four showers of the table and  *)
(* a name outside it, on days before, at and after every period's ends.    *)
(***************************************************************************)
MeteorNames == ShowerNames \cup { "Orionids" }
MeteorDays == { 1, 3, 4, 5, 6, 15, 16, 17, 18, 24, 25, 26, 30 }

InitMeteor ==
  /\ call \in [ fn : {"isMeteorShowerActive"}, name : MeteorNames,
                month : 1..12, day : MeteorDays ]
  /\ ~(call.month = 2 /\ call.day = 30)
  /\ ret = NoResult
  /\ ResolverIdle

CallMeteor ==
  /\ call.fn = "isMeteorShowerActive"
  /\ ret = NoResult
  /\ ret' = [ active |-> isMeteorShowerActive(call.name, call.month, call.day) ]
  /\ UNCHANGED << call, resolverVars >>

NextMeteor == CallMeteor

SpecMeteor == InitMeteor /\ [][NextMeteor]_vars

(***************************************************************************)
(* SpecLocalTransit: the fallback of getMockCelestialObjects for a body    *)
(* without provider data: calculateRiseSetTimes, then                      *)
(* calculateBestViewingWindow with no transit supplied, on the same        *)
(* arguments.                                                              *)
(***************************************************************************)
InitLocalTransit ==
  /\ call \in [ fn : {"localTransit"},
                rightAscension : RightAscensions, declination : Declinations,
                latitude : Latitudes, longitude : {0 - 74, 0},
                date : Dates, timezoneOffset : {Undefined, 0 - 5, 1}, hostTz : {0} ]
  /\ ret = NoResult
  /\ ResolverIdle

LocalRiseSet ==
  /\ call.fn = "localTransit"
  /\ ret = NoResult
  /\ ret' = [ riseSet |-> calculateRiseSetTimes(call.rightAscension, call.declination,
                                                call.latitude, call.longitude, call.date,
                                                call.timezoneOffset, call.hostTz) ]
  /\ UNCHANGED << call, resolverVars >>

LocalWindow ==
  /\ call.fn = "localTransit"
  /\ ret # NoResult /\ DOMAIN ret = {"riseSet"}
  /\ ret' = [ riseSet |-> ret.riseSet,
              window  |-> calculateBestViewingWindow(call.rightAscension, call.declination,
                                                     call.latitude, call.longitude, call.date,
                                                     call.timezoneOffset, Null, call.hostTz) ]
  /\ UNCHANGED << call, resolverVars >>

NextLocalTransit == LocalRiseSet \/ LocalWindow

SpecLocalTransit == InitLocalTransit /\ [][NextLocalTransit]_vars

(***************************************************************************)
(* Spec: one request to getMockCelestialObjects.  The state after          *)
(* construction is the request suspended at the await of the USNO batch:   *)
(* the call of index 0 has issued its fetch, the others wait for their     *)
(* timer (300 ms times the index).  Every continuation between two awaits  *)
(* runs to completion as one action.                                       *)
(***************************************************************************)
FailureKinds == { "httpError", "malformed", "exception" }
Failures == [ kind : FailureKinds, fields : { {} } ]
UsnoResponses ==
  Failures \cup [ kind : {"ok"}, fields : { {"rise"}, {"rise", "set", "transit"} } ]
HorizonsResponses ==
  Failures \cup [ kind : {"ok"}, fields : { {"rise", "set", "transit"} } ]

\* The per-body calls of a batch over bodyNames, as bodyNames.map leaves them:
\* index 0 runs to its fetch, the others to their timer.
StartBatch(bodyNames) ==
  [ name \in Range(planetNames) |->
      [ state |-> IF bodyNames # << >> /\ name = bodyNames[1] THEN "inflight"
                  ELSE IF name \in Range(bodyNames) THEN "waiting"
                  ELSE "none",
        result |-> NullTiming ] ]

\* The timers of a batch expire in the order of their delays.
TimerMayFire(calls, bodyNames, i) ==
  /\ calls[bodyNames[i]].state = "waiting"
  /\ \A j \in 1..(i - 1) : calls[bodyNames[j]].state # "waiting"

Init ==
  /\ call \in [ fn : {"getMockCelestialObjects"}, latitude : {41, 80},
                longitude : {0 - 74}, date : {BaseDay * MinutesPerDay + 20 * MinutesPerHour},
                timezoneOffset : {0 - 5}, hostTz : {0} ]
  /\ ret = NoResult
  /\ pc = "usno"
  /\ usno \in [ Range(planetNames) -> UsnoResponses ]
  /\ horizons \in [ Range(planetNames) -> HorizonsResponses ]
  /\ usnoCalls = StartBatch(planetNames)
  /\ horizonsCalls = StartBatch(<< >>)
  /\ usnoResults = << >>
  /\ horizonsResults = << >>
  /\ apiResults = [ name \in Range(planetNames) |-> NoEntry ]
  /\ missingPlanets = << >>

\* setTimeout(resolve, 300 * index) expires and the call issues its fetch.
UsnoTimer ==
  \E i \in 1..Len(planetNames) :
    /\ TimerMayFire(usnoCalls, planetNames, i)
    /\ usnoCalls' = [ usnoCalls EXCEPT ![planetNames[i]].state = "inflight" ]
    /\ UNCHANGED << call, ret, pc, usno, horizons, horizonsCalls, usnoResults,
                    horizonsResults, apiResults, missingPlanets >>

\* The service answers (or the fetch fails) and fetchUsnoRiseSetTimes returns.
UsnoResponse ==
  \E name \in Range(planetNames) :
    /\ usnoCalls[name].state = "inflight"
    /\ usnoCalls' = [ usnoCalls EXCEPT ![name] =
         [ state |-> "done",
           result |-> fetchUsnoRiseSetTimes(name, usno[name], call.date, call.hostTz) ] ]
    /\ UNCHANGED << call, ret, pc, usno, horizons, horizonsCalls, usnoResults,
                    horizonsResults, apiResults, missingPlanets >>

\* The continuation of `await fetchMultipleUsnoRiseSetTimes(...)`: convert,
\* select the missing planets, start the Horizons batch or, with none
\* missing, map the objects and return.
AfterUsnoBatch ==
  /\ pc = "usno"
  /\ UsnoBatchSettled(usnoCalls, planetNames)
  /\ LET results == UsnoBatchResults(usnoCalls, planetNames)
         api == ConvertUsnoResults(results)
         missing == MissingPlanets(api)
     IN  /\ usnoResults' = results
         /\ apiResults' = api
         /\ missingPlanets' = missing
         /\ IF Len(missing) > 0
            THEN /\ pc' = "horizons"
                 /\ horizonsCalls' = StartBatch(missing)
                 /\ ret' = ret
            ELSE /\ pc' = "done"
                 /\ horizonsCalls' = horizonsCalls
                 /\ ret' = MapObjects(api, call)
  /\ UNCHANGED << call, usno, horizons, usnoCalls, horizonsResults >>

\* setTimeout(resolve, 200 * index) expires and the call issues its fetch.
HorizonsTimer ==
  \E i \in 1..Len(missingPlanets) :
    /\ TimerMayFire(horizonsCalls, missingPlanets, i)
    /\ horizonsCalls' = [ horizonsCalls EXCEPT ![missingPlanets[i]].state = "inflight" ]
    /\ UNCHANGED << call, ret, pc, usno, horizons, usnoCalls, usnoResults,
                    horizonsResults, apiResults, missingPlanets >>

\* The service answers (or the fetch fails) and fetchHorizonsRiseSetTimes returns.
HorizonsResponse ==
  \E name \in Range(planetNames) :
    /\ horizonsCalls[name].state = "inflight"
    /\ horizonsCalls' = [ horizonsCalls EXCEPT ![name] =
         [ state |-> "done",
           result |-> fetchHorizonsRiseSetTimes(name, horizons[name], call.date,
                                                call.timezoneOffset) ] ]
    /\ UNCHANGED << call, ret, pc, usno, horizons, usnoCalls, usnoResults,
                    horizonsResults, apiResults, missingPlanets >>

\* The continuation of `await fetchMultipleHorizonsRiseSetTimes(...)`: merge,
\* map the objects and return.
AfterHorizonsBatch ==
  /\ pc = "horizons"
  /\ HorizonsBatchSettled(horizonsCalls, missingPlanets)
  /\ LET results == HorizonsBatchResults(horizonsCalls, missingPlanets)
         api == MergeHorizonsResults(apiResults, results)
     IN  /\ horizonsResults' = results
         /\ apiResults' = api
         /\ ret' = MapObjects(api, call)
  /\ pc' = "done"
  /\ UNCHANGED << call, usno, horizons, usnoCalls, horizonsCalls, usnoResults,
                  missingPlanets >>

Next ==
  \/ UsnoTimer
  \/ UsnoResponse
  \/ AfterUsnoBatch
  \/ HorizonsTimer
  \/ HorizonsResponse
  \/ AfterHorizonsBatch

Spec == Init /\ [][Next]_vars

(***************************************************************************)
(* SpecBatch: one call of fetchMultipleUsnoRiseSetTimes or of              *)
(* fetchMultipleHorizonsRiseSetTimes for three bodies.  The state after    *)
(* construction is the batch suspended at Promise.all: the call of index 0 *)
(* has issued its fetch, the others wait for their timer.  Each call       *)
(* records in `finished` its place in the order of completion.             *)
(***************************************************************************)
BatchBodies == << "Mars", "Jupiter", "Saturn" >>

BatchCalls(bodyNames) ==
  [ name \in Range(bodyNames) |->
      [ state |-> IF name = bodyNames[1] THEN "inflight" ELSE "waiting",
        result |-> NullTiming, finished |-> 0 ] ]

NumberFinished(calls) == Cardinality({ name \in DOMAIN calls : calls[name].state = "done" })

InitBatch ==
  /\ call \in [ fn : {"fetchMultipleUsnoRiseSetTimes", "fetchMultipleHorizonsRiseSetTimes"},
                bodyNames : {BatchBodies},
                date : {BaseDay * MinutesPerDay + 20 * MinutesPerHour},
                timezoneOffset : {0 - 5}, hostTz : {0} ]
  /\ ret = NoResult
  /\ pc = "batch"
  /\ IF call.fn = "fetchMultipleUsnoRiseSetTimes"
     THEN /\ usno \in [ Range(BatchBodies) -> UsnoResponses ]
          /\ usnoCalls = BatchCalls(BatchBodies)
          /\ horizons = << >>
          /\ horizonsCalls = << >>
     ELSE /\ horizons \in [ Range(BatchBodies) ->
                              UsnoResponses \cup HorizonsResponses ]
          /\ horizonsCalls = BatchCalls(BatchBodies)
          /\ usno = << >>
          /\ usnoCalls = << >>
  /\ usnoResults = << >>
  /\ horizonsResults = << >>
  /\ apiResults = << >>
  /\ missingPlanets = << >>

\* setTimeout(resolve, 300 * index) expires and the call issues its fetch.
BatchUsnoTimer ==
  /\ call.fn = "fetchMultipleUsnoRiseSetTimes"
  /\ \E i \in 1..Len(call.bodyNames) :
       /\ TimerMayFire(usnoCalls, call.bodyNames, i)
       /\ usnoCalls' = [ usnoCalls EXCEPT ![call.bodyNames[i]].state = "inflight" ]
  /\ UNCHANGED << call, ret, pc, usno, horizons, horizonsCalls, usnoResults,
                  horizonsResults, apiResults, missingPlanets >>

\* fetchUsnoRiseSetTimes returns for one body.
BatchUsnoResponse ==
  /\ call.fn = "fetchMultipleUsnoRiseSetTimes"
  /\ \E name \in Range(call.bodyNames) :
       /\ usnoCalls[name].state = "inflight"
       /\ usnoCalls' = [ usnoCalls EXCEPT ![name] =
            [ state |-> "done",
              result |-> fetchUsnoRiseSetTimes(name, usno[name], call.date, call.hostTz),
              finished |-> NumberFinished(usnoCalls) + 1 ] ]
  /\ UNCHANGED << call, ret, pc, usno, horizons, horizonsCalls, usnoResults,
                  horizonsResults, apiResults, missingPlanets >>

\* Promise.all resolves, forEach keys the results by name, the batch returns.
BatchUsnoSettle ==
  /\ call.fn = "fetchMultipleUsnoRiseSetTimes"
  /\ pc = "batch"
  /\ UsnoBatchSettled(usnoCalls, call.bodyNames)
  /\ ret' = UsnoBatchResults(usnoCalls, call.bodyNames)
  /\ pc' = "settled"
  /\ UNCHANGED << call, usno, horizons, usnoCalls, horizonsCalls, usnoResults,
                  horizonsResults, apiResults, missingPlanets >>

\* setTimeout(resolve, 200 * index) expires and the call issues its fetch.
BatchHorizonsTimer ==
  /\ call.fn = "fetchMultipleHorizonsRiseSetTimes"
  /\ \E i \in 1..Len(call.bodyNames) :
       /\ TimerMayFire(horizonsCalls, call.bodyNames, i)
       /\ horizonsCalls' = [ horizonsCalls EXCEPT ![call.bodyNames[i]].state = "inflight" ]
  /\ UNCHANGED << call, ret, pc, usno, horizons, usnoCalls, usnoResults,
                  horizonsResults, apiResults, missingPlanets >>

\* fetchHorizonsRiseSetTimes returns for one body.
BatchHorizonsResponse ==
  /\ call.fn = "fetchMultipleHorizonsRiseSetTimes"
  /\ \E name \in Range(call.bodyNames) :
       /\ horizonsCalls[name].state = "inflight"
       /\ horizonsCalls' = [ horizonsCalls EXCEPT ![name] =
            [ state |-> "done",
              result |-> fetchHorizonsRiseSetTimes(name, horizons[name], call.date,
                                                   call.timezoneOffset),
              finished |-> NumberFinished(horizonsCalls) + 1 ] ]
  /\ UNCHANGED << call, ret, pc, usno, horizons, usnoCalls, usnoResults,
                  horizonsResults, apiResults, missingPlanets >>

\* Promise.all resolves, forEach keys the results by name, the batch returns.
BatchHorizonsSettle ==
  /\ call.fn = "fetchMultipleHorizonsRiseSetTimes"
  /\ pc = "batch"
  /\ HorizonsBatchSettled(horizonsCalls, call.bodyNames)
  /\ ret' = HorizonsBatchResults(horizonsCalls, call.bodyNames)
  /\ pc' = "settled"
  /\ UNCHANGED << call, usno, horizons, usnoCalls, horizonsCalls, usnoResults,
                  horizonsResults, apiResults, missingPlanets >>

NextBatch ==
  \/ BatchUsnoTimer
  \/ BatchUsnoResponse
  \/ BatchUsnoSettle
  \/ BatchHorizonsTimer
  \/ BatchHorizonsResponse
  \/ BatchHorizonsSettle

SpecBatch == InitBatch /\ [][NextBatch]_vars

(***************************************************************************)
(* Claims about calculateRiseSetTimes (SpecRiseSet).                       *)
(***************************************************************************)
RiseSetReturned == Returned /\ call.fn = "calculateRiseSetTimes"

\* C6: for every body that is not circumpolar (calculateHourAngleAtHorizon
\* returns a number) calculateRiseSetTimes returns riseTime < transitTime <
\* setTime, strictly, the boundary |tan(latitude) tan(declination)| = 1
\* included.
C6_RiseTransitSetStrictlyOrdered ==
  (RiseSetReturned /\ calculateHourAngleAtHorizon(call.declination, call.latitude) # Null)
    => (ret.riseTime < ret.transitTime /\ ret.transitTime < ret.setTime)

(***************************************************************************)
(* Claims about calculateBestViewingWindow (SpecWindow).                   *)
(***************************************************************************)
WindowReturned == Returned /\ call.fn = "calculateBestViewingWindow"

\* The night the window is clipped to exists: sunset and sunrise are instants.
NightIsDefined == IsInstant(WindowSunset) /\ IsInstant(WindowSunrise)

\* C7: calculateBestViewingWindow never returns an inverted interval: the
\* returned startTime is not later than the returned endTime.
C7_WindowNeverInverted ==
  WindowReturned => ~DateGt(ret.startTime, ret.endTime)

\* C8: the returned window lies within [sunset, next sunrise]: both startTime
\* and endTime satisfy sunset <= t <= sunrise, in every transit-hour branch.
C8_WindowWithinNight ==
  (WindowReturned /\ NightIsDefined)
    => /\ WindowSunset <= ret.startTime /\ ret.startTime <= WindowSunrise
       /\ WindowSunset <= ret.endTime /\ ret.endTime <= WindowSunrise

Max(a, b) == IF a >= b THEN a ELSE b
Min(a, b) == IF a <= b THEN a ELSE b

VisibilityReturned == Returned /\ call.fn = "getVisibilityStatus"

\* C10: getVisibilityStatus is a total first-match rule table: 'visible' iff
\* altitude > 0 and the local hour is < 6 or >= 18; otherwise 'rising' iff a
\* riseTime exists, the current time is before it and it is at most 2 h away;
\* otherwise 'below' iff altitude <= 0; otherwise 'daylight'.
C10_VisibilityRuleTable ==
  VisibilityReturned
    => LET hour == GetHours(call.currentTime, call.hostTz)
           visible == /\ call.altitude # NaN /\ call.altitude > 0
                      /\ (hour < 6 \/ hour >= 18)
           rising == /\ IsInstant(call.riseTime)
                     /\ call.currentTime < call.riseTime
                     /\ call.riseTime - call.currentTime <= 120
           below == call.altitude # NaN /\ call.altitude <= 0
       IN  /\ ret.status \in {"visible", "rising", "below", "daylight"}
           /\ (ret.status = "visible") = visible
           /\ (ret.status = "rising") = (~visible /\ rising)
           /\ (ret.status = "below") = (~visible /\ ~rising /\ below)
           /\ (ret.status = "daylight") = (~visible /\ ~rising /\ ~below)

\* Altitude -3 at 23:40 with the rise at 23:50 is 'rising', and the rule's
\* edge of exactly two hours is reached too.
C10_Witness ==
  /\ VisibilityReturned
  /\ call.altitude = 0 - 3
  /\ GetHours(call.currentTime, call.hostTz) = 23
  /\ call.riseTime = call.currentTime + 10
  /\ ret.status = "rising"


(***************************************************************************)
(* Claims about getMockCelestialObjects and the provider batches (Spec).   *)
(***************************************************************************)
RequestDone == pc = "done"

\* The fetch of a per-body call has been issued.
Issued(calls, name) == calls[name].state \in { "inflight", "done" }

\* The body's USNO call returned no usable field.
UsnoGaveNothing(name) == usnoCalls[name].result = NullTiming

UsnoRiseOnly == [ kind |-> "ok", fields |-> {"rise"} ]
HorizonsComplete == [ kind |-> "ok", fields |-> {"rise", "set", "transit"} ]

\* C1: when USNO returns only riseTime = X for a body and Horizons would
\* return riseTime = Y, setTime = Z, transitTime = W, the merged timing of the
\* body has riseTime = X and setTime = Z, transitTime = W.
C1_PartialUsnoFilledFromHorizons ==
  RequestDone =>
    \A name \in Range(planetNames) :
      (usno[name] = UsnoRiseOnly /\ horizons[name] = HorizonsComplete) =>
        apiResults[name] =
          [ riseTime    |-> parseUsnoTime(UsnoToken.rise, call.date, call.hostTz),
            setTime     |-> parseHorizonsTime(HorizonsToken.set, call.date,
                                              call.timezoneOffset),
            transitTime |-> parseHorizonsTime(HorizonsToken.transit, call.date,
                                              call.timezoneOffset) ]

\* C2: Horizons is queried for exactly the requested bodies whose USNO call
\* returned rise, set and transit all null, and a body with at least one USNO
\* field keeps USNO's rise/set/transit in the merged results, whatever
\* Horizons would return.
C2_HorizonsOnlyForBodiesWithoutUsnoData ==
  /\ \A name \in Range(planetNames) :
       Issued(horizonsCalls, name) =>
         usnoCalls[name].state = "done" /\ UsnoGaveNothing(name)
  /\ RequestDone =>
       \A name \in Range(planetNames) :
         /\ UsnoGaveNothing(name) <=> horizonsCalls[name].state = "done"
         /\ HasAnyField(usnoCalls[name].result) =>
              apiResults[name] = usnoCalls[name].result

C2_Witness ==
  /\ RequestDone
  /\ \E kept \in Range(planetNames), missing \in Range(planetNames) :
       /\ HasAnyField(usnoCalls[kept].result)
       /\ horizons[kept] = HorizonsComplete
       /\ horizonsCalls[kept].state = "none"
       /\ apiResults[kept] = usnoCalls[kept].result
       /\ UsnoGaveNothing(missing)
       /\ horizonsCalls[missing].state = "done"
       /\ apiResults[missing] = horizonsCalls[missing].result
       /\ apiResults[missing] # NullTiming

AllProvidersFail ==
  \A name \in Range(planetNames) :
    usno[name].kind \in FailureKinds /\ horizons[name].kind \in FailureKinds

\* C3: every request terminates and every body of its result carries a
\* transitTime, including when all external providers fail for all bodies.
C3_EveryBodyHasTransitWhenProvidersFail ==
  (RequestDone /\ AllProvidersFail) =>
    \A name \in Range(planetNames) : IsInstant(ret[name].transitTime)

C5_HorizonsAfterWholeUsnoBatch ==
  /\ (\E name \in Range(planetNames) : horizonsCalls[name].state # "none") =>
       \A name \in Range(planetNames) : usnoCalls[name].state = "done"
  /\ pc \in { "horizons", "done" } =>
       Range(missingPlanets) = { name \in Range(planetNames) : UsnoGaveNothing(name) }

C5_Witness ==
  /\ pc = "horizons"
  /\ \A name \in Range(planetNames) : usnoCalls[name].state = "done"
  /\ \E first \in Range(planetNames), second \in Range(planetNames) :
       /\ horizonsCalls[first].state = "done"
       /\ horizonsCalls[second].state = "inflight"


(***************************************************************************)
(* Claims about the position table (SpecInterpolate, SpecPosition).        *)
(***************************************************************************)
InterpolateReturned == call.fn = "interpolatePosition" /\ Returned

\* The length of the shorter arc between two right ascensions.
CircularDistance(a, b) == Min(Abs(a - b), HundredthsPerDay - Abs(a - b))

\* C11: interpolatePosition moves from the first right ascension to the
\* second along the arc no longer than 12 h, by the factor's share of that
\* arc; it returns the first at factor 0 and the second at factor 1, and the
\* result is in [0, 24).
C11_RightAscensionAlongShortArc ==
  InterpolateReturned =>
    LET f == InterpolationFactor(call.startDate, call.endDate, call.targetDate)
        ra1 == call.pos1.rightAscension
        ra2 == call.pos2.rightAscension
        arc == CircularDistance(ra1, ra2)
        ra == ret.rightAscension
    IN  /\ ra \in 0..(HundredthsPerDay - 1)
        /\ f.num = 0 => ra = ra1
        /\ f.num = f.den => ra = ra2
        /\ arc <= HalfTurn
        /\ CircularDistance(ra1, ra) + CircularDistance(ra, ra2) = arc
        /\ Abs(CircularDistance(ra1, ra) * f.den - arc * f.num) < f.den

\* Half way from 23.9 h to 0.2 h is 0.05 h, on the far side of the wrap.
C11_Witness ==
  /\ InterpolateReturned
  /\ call.pos1.rightAscension = 2390 /\ call.pos2.rightAscension = 20
  /\ call.endDate - call.startDate = 4 * MinutesPerDay
  /\ call.targetDate - call.startDate = 2 * MinutesPerDay
  /\ ret.rightAscension = 5

PositionReturned == call.fn = "fetchPlanetaryPosition" /\ Returned

TableStart == parseDate(PLANETARY_POSITIONS[1].startDate)
TableEnd == parseDate(PLANETARY_POSITIONS[Len(PLANETARY_POSITIONS)].endDate)

\* C12: for a tabulated body fetchPlanetaryPosition returns the first range's
\* stored entry for every date before the first startDate and the last
\* range's stored entry for every date after the last endDate.
C12_DatesOutsideTableClamp ==
  (PositionReturned /\ call.planetName \in TabulatedPlanets) =>
    /\ TargetDate(call.date) < TableStart =>
         ret = PLANETARY_POSITIONS[1].positions[call.planetName]
    /\ TargetDate(call.date) > TableEnd =>
         ret = PLANETARY_POSITIONS[Len(PLANETARY_POSITIONS)].positions[call.planetName]

C12_Witness ==
  /\ PositionReturned
  /\ call.planetName = "Jupiter"
  /\ call.date = TableStart - MinutesPerDay + 20 * MinutesPerHour
  /\ ret = Position(1511, 180)

\* C13: for every range and date inside it the interpolation factor is a
\* finite number in [0, 1], and in a range of zero length it is 0, so the
\* range's own entry is returned.
C13_FactorFiniteWithinUnit ==
  InterpolateReturned =>
    LET f == InterpolationFactor(call.startDate, call.endDate, call.targetDate)
    IN  /\ f.den > 0
        /\ 0 <= f.num /\ f.num <= f.den
        /\ ret.rightAscension # NaN /\ ret.declination # NaN
        /\ call.startDate = call.endDate => (f.num = 0 /\ ret = call.pos1)

C13_Witness ==
  /\ InterpolateReturned
  /\ call.startDate = call.endDate
  /\ call.pos2 # call.pos1
  /\ ret = call.pos1

\* C14: the ranges of PLANETARY_POSITIONS are ordered, non-overlapping and
\* contiguous; every date from the first startDate to the last endDate is
\* contained in exactly one range, and the lookup of a tabulated body for it
\* does not return null.
C14_TableContiguous ==
  /\ \A i \in 1..Len(PLANETARY_POSITIONS) :
       PLANETARY_POSITIONS[i].startDate <= PLANETARY_POSITIONS[i].endDate
  /\ \A i \in 1..(Len(PLANETARY_POSITIONS) - 1) :
       PLANETARY_POSITIONS[i + 1].startDate = PLANETARY_POSITIONS[i].endDate + 1
  /\ (PositionReturned /\ TargetDate(call.date) >= TableStart
        /\ TargetDate(call.date) <= TableEnd) =>
       /\ Cardinality({ i \in 1..Len(PLANETARY_POSITIONS) :
                          Contains(PLANETARY_POSITIONS[i], TargetDate(call.date)) }) = 1
       /\ call.planetName \in TabulatedPlanets => ret # NoPosition

\* The last day of January late in the evening: in the first range only.
C14_Witness ==
  /\ PositionReturned
  /\ call.planetName = "Mars"
  /\ call.date = parseDate(PLANETARY_POSITIONS[1].endDate) + 20 * MinutesPerHour
  /\ Contains(PLANETARY_POSITIONS[1], TargetDate(call.date))
  /\ ret # NoPosition


(***************************************************************************)
(* Claims about the per-body merge (SpecMapObject).                        *)
(***************************************************************************)
MapObjectReturned == call.fn = "objects.map" /\ Returned

\* The object goes through the circumpolar test of the merge.
TestedForCircumpolar ==
  /\ call.obj.name # "Polaris" /\ call.obj.type # "meteor"
  /\ IsCircumpolar(call.obj.declination, call.latitude)

SameHemisphere ==
  \/ call.obj.declination > 0 /\ call.latitude > 0
  \/ call.obj.declination < 0 /\ call.latitude < 0

\* C15: a body with |declination| > 90 - |latitude| is returned without
\* rise/set times as never setting when its declination has the sign of the
\* latitude; when the signs differ it never rises and is not returned as
\* always visible.
C15_CircumpolarBySign ==
  (MapObjectReturned /\ TestedForCircumpolar) =>
    /\ SameHemisphere => (ret.riseTime = Null /\ ret.setTime = Null)
    /\ ~SameHemisphere => ret # NoTiming


(***************************************************************************)
(* More claims about calculateRiseSetTimes (SpecRiseSet).                  *)
(***************************************************************************)
\* C16: when calculateHourAngleAtHorizon reports circumpolar,
\* calculateRiseSetTimes returns riseTime = null, setTime = null and a
\* transitTime that is 12:00 of the date in the timezone-offset-applied form
\* of the other results, not 12:00 minus the timezone offset.
C16_CircumpolarTransitIsDisplayNoon ==
  (RiseSetReturned /\ calculateHourAngleAtHorizon(call.declination, call.latitude) = Null)
    => /\ ret.riseTime = Null
       /\ ret.setTime = Null
       /\ ret.transitTime =
            ToDisplay(NoonLocal(call.date, call.timezoneOffset, call.hostTz),
                      call.timezoneOffset)


(***************************************************************************)
(* Claims about the transit offset (SpecTransit).                          *)
(***************************************************************************)
TransitReturned == call.fn = "hoursToTransit" /\ Returned

\* C17: for every right ascension and noon sidereal time in [0, 24) the
\* offset added to noon is the value in (-12, 12] hours congruent to
\* RA - LST_noon modulo 24 hours.
C17_TransitOffsetInHalfOpenDay ==
  TransitReturned =>
    /\ ret.hoursToTransit > 0 - 12 * MinutesPerHour
    /\ ret.hoursToTransit <= 12 * MinutesPerHour
    /\ (ret.hoursToTransit - (call.rightAscension - call.lstAtNoon)) % MinutesPerDay = 0


(***************************************************************************)
(* Claims about calculateLocalSiderealTime (SpecSidereal).                 *)
(***************************************************************************)
SiderealReturned == call.fn = "calculateLocalSiderealTime" /\ Returned

\* C18: for every longitude in [-180, 180], every instant, those before the
\* J2000.0 epoch included, and every optional timezone offset,
\* calculateLocalSiderealTime returns a value in [0, 24).
C18_SiderealTimeInDay ==
  SiderealReturned => (ret.lst >= 0 /\ ret.lst < 24 * Million)

\* Minutes of sidereal time between two sidereal times, the short way round.
SiderealDistance(a, b) == Min(Abs(a - b), MinutesPerDay - Abs(a - b))

\* C19: with no timezone offset calculateLocalSiderealTime returns
\* ((100.46 + 0.985647 d + longitude + 15 UTC decimal hours) mod 360) / 15 in
\* [0, 24), the minutes of the instant included: the value the noon sidereal
\* time inside calculateRiseSetTimes gives for that instant.  The two are
\* computed in different units, so they are compared to within five minutes
\* of sidereal time.
C19_SiderealTimeMatchesFormula ==
  (SiderealReturned /\ call.timezoneOffset = Undefined) =>
    SiderealDistance((ret.lst * MinutesPerHour) \div Million,
                     LstAtNoon(call.date, call.longitude \div Million))
      <= 5


(***************************************************************************)
(* Claims about repeated evaluation (SpecTwice).                           *)
(***************************************************************************)
EvaluatedTwice == call.fn = "twice" /\ Len(ret.evaluations) = 2

\* C20: two evaluations with the same explicit inputs produce identical
\* results; no output depends on the time of the call, on the host's own
\* timezone or on a random source.
C20_SameInputsSameResults ==
  EvaluatedTwice => ret.evaluations[1] = ret.evaluations[2]

(***************************************************************************)
(* Claims about calculateAzimuth (SpecAzimuth).                            *)
(***************************************************************************)
AzimuthReturned == call.fn = "calculateAzimuth" /\ Returned

\* C21: for every declination and latitude in [-90, 90] and every hour angle
\* calculateAzimuth returns a number, never NaN, in [0, 360), the observer at
\* a pole, the body at the zenith and the body on the meridian included.
C21_AzimuthDefinedInCircle ==
  AzimuthReturned => (ret.azimuth # NaN /\ ret.azimuth >= 0 /\ ret.azimuth < 360)

(***************************************************************************)
(* Claims about the provider parsers (SpecParse).                          *)
(***************************************************************************)
ParseReturned ==
  call.fn \in { "fetchUsnoRiseSetTimes", "fetchHorizonsRiseSetTimes" } /\ Returned

\* The token names a time of day, or is a number of milliseconds.
IsWellFormed(token) ==
  \/ token.text = "clock" /\ token.hours <= 23 /\ token.minutes <= 59
  \/ token.text = "epoch"

\* The instant a well-formed token stands for in the provider's convention.
InstantOf(token) ==
  IF token.text = "epoch" THEN token.epoch
  ELSE IF call.fn = "fetchUsnoRiseSetTimes"
  THEN parseUsnoTime(token.hours * MinutesPerHour + token.minutes, call.date, call.hostTz)
  ELSE parseHorizonsTime(token.hours * MinutesPerHour + token.minutes, call.date,
                         call.timezoneOffset)

\* C22: in both provider parsers a rise, transit or set token that cannot be
\* parsed into a valid instant leaves exactly that field null, never an
\* invalid instant, and the other fields of the record keep their parsed
\* values.
C22_UnparseableTokenLeavesFieldNull ==
  ParseReturned =>
    /\ ret.riseTime = (IF IsWellFormed(call.rise) THEN InstantOf(call.rise) ELSE Null)
    /\ ret.setTime = (IF IsWellFormed(call.set) THEN InstantOf(call.set) ELSE Null)
    /\ ret.transitTime = (IF IsWellFormed(call.transit) THEN InstantOf(call.transit) ELSE Null)

(***************************************************************************)
(* Claims about the transit time the planner uses (SpecMapObject).         *)
(***************************************************************************)
\* The merge computes a viewing window for the object.
WindowComputed ==
  /\ call.obj.name # "Polaris" /\ call.obj.type # "meteor"
  /\ ~(IsCircumpolar(call.obj.declination, call.latitude) /\ call.obj.declination > 0)

\* The transit time the provider returned for the object, Null without one.
ProviderTransit ==
  IF call.obj.name \in DOMAIN call.api /\ call.api[call.obj.name] # NoEntry
  THEN call.api[call.obj.name].transitTime
  ELSE Null

\* The window of the hour bucket of a transit time, within the night.
WindowAround(transit) ==
  LET h == GetHours(transit, call.hostTz)
      start == IF h \in 18..23 THEN transit - 60
               ELSE IF h \in 0..6 THEN transit - 90
               ELSE WindowSunset - 30
      end == IF h \in 18..23 THEN transit + 90
             ELSE IF h \in 0..6 THEN transit + 60
             ELSE WindowSunset + 120
  IN  [ startTime |-> Max(start, WindowSunset), endTime |-> Min(end, WindowSunrise) ]

\* C23: a supplied transit time is preferred.  For every object the merge
\* computes a window for, the planner is given the provider's transit time
\* when the provider returned one; its peakTime is then that instant, with
\* none supplied the locally computed transit; and in both cases the window
\* returned is the one of the hour bucket of peakTime.
C23_SuppliedTransitPreferred ==
  (MapObjectReturned /\ WindowComputed /\ NightIsDefined) =>
    LET w == calculateBestViewingWindow(call.obj.rightAscension, call.obj.declination,
               call.latitude, call.longitude, call.date, call.timezoneOffset,
               ProviderTransit, call.hostTz)
    IN  /\ ProviderTransit # Null => (w.peakTime = ProviderTransit /\ ret.transitTime = ProviderTransit)
        /\ ProviderTransit = Null =>
             w.peakTime = WindowTransit(call.obj.rightAscension, call.longitude, call.date,
                                        call.timezoneOffset, call.hostTz)
        /\ ret.bestViewingStart = WindowAround(w.peakTime).startTime
        /\ ret.bestViewingEnd = WindowAround(w.peakTime).endTime

\* A provider transit at 03:30 in another bucket than the local transit: the
\* window runs from an hour and a half before it to an hour after it.
C23_Witness ==
  /\ MapObjectReturned /\ WindowComputed /\ NightIsDefined
  /\ ProviderTransit # Null
  /\ GetHours(ProviderTransit, call.hostTz) = 3
  /\ GetHours(WindowTransit(call.obj.rightAscension, call.longitude, call.date,
                            call.timezoneOffset, call.hostTz), call.hostTz) \notin 0..6
  /\ ret.bestViewingStart = ProviderTransit - 90
  /\ ret.bestViewingEnd = ProviderTransit + 60

(***************************************************************************)
(* Claims about calculateHourAngleAtHorizon (SpecHourAngle).               *)
(***************************************************************************)
HourAngleReturned == call.fn = "calculateHourAngleAtHorizon" /\ Returned

\* |sin(latitude) sin(declination)| and cos(latitude) cos(declination): the
\* first exceeds the second exactly when |-tan(latitude) tan(declination)|
\* exceeds 1.
TanProductNumerator == Abs(Sin(call.latitude) * Sin(call.declination))
TanProductDenominator == Cos(call.latitude) * Cos(call.declination)

\* C24: calculateHourAngleAtHorizon returns null (circumpolar) exactly when
\* |-tan(latitude) tan(declination)| > 1; otherwise it returns an hour angle
\* in [0, 180]; it never returns NaN for latitude and declination in
\* [-90, 90].
C24_HourAngleOrCircumpolar ==
  HourAngleReturned =>
    /\ ret.hourAngle # NaN
    /\ ret.hourAngle = Null <=> TanProductNumerator > TanProductDenominator
    /\ ret.hourAngle # Null => (ret.hourAngle >= 0 /\ ret.hourAngle <= 180)

\* The boundary: latitude 60 and declination 30, the product of the tangents
\* exactly 1, and the hour angle 180 is returned.
C24_Witness ==
  /\ HourAngleReturned
  /\ TanProductNumerator = TanProductDenominator /\ TanProductDenominator > 0
  /\ ret.hourAngle = 180

(***************************************************************************)
(* Claims about the symmetry of rise and set (SpecRiseSet).                *)
(***************************************************************************)
\* HA_deg / 15 hours, in minutes, for the call in progress.
HourAngleMinutes == 4 * calculateHourAngleAtHorizon(call.declination, call.latitude)

DaytimeReturned == WindowReturned /\ IsDaytimeTransit(ret.peakTime, call.hostTz)

SweepDone == Returned /\ call.index = SweepSize

MeteorReturned == Returned /\ call.fn = "isMeteorShowerActive"

\* (month, day) is on or after (m, d) in the calendar.
OnOrAfter(month, day, m, d) == month > m \/ (month = m /\ day >= d)

WithinPeriod(name, month, day) ==
  /\ OnOrAfter(month, day, meteorShowers[name].startMonth, meteorShowers[name].startDay)
  /\ OnOrAfter(meteorShowers[name].endMonth, meteorShowers[name].endDay, month, day)

\* C27: isMeteorShowerActive is true exactly on the days from the shower's
\* start to its end, both included; a shower whose period lies in one month
\* (Leonids, Lyrids) is inactive on that month's other days; a name outside
\* the table is never active.
C27_ActiveExactlyWithinPeriod ==
  MeteorReturned =>
    IF call.name \in ShowerNames
    THEN ret.active <=> WithinPeriod(call.name, call.month, call.day)
    ELSE ~ret.active

(***************************************************************************)
(* Claims about the planner's sunset and sunrise (SpecWindow).             *)
(***************************************************************************)
\* C28: calculateSunset and calculateSunrise return a valid instant, never
\* an Invalid Date, at every latitude and date, polar day and polar night
\* included, so that the window's start and end are valid as well.
C28_SunsetAndSunriseAlwaysValid ==
  WindowReturned =>
    /\ IsInstant(WindowSunset) /\ IsInstant(WindowSunrise)
    /\ IsInstant(ret.startTime) /\ IsInstant(ret.endTime)

(***************************************************************************)
(* Claims about the two local transit computations (SpecLocalTransit).     *)
(***************************************************************************)
BothReturned == call.fn = "localTransit" /\ ret # NoResult /\ "window" \in DOMAIN ret

\* calculateRiseSetTimes took the body as circumpolar.
TakenAsCircumpolar == ret.riseSet.riseTime = Null /\ ret.riseSet.setTime = Null

\* C29: with no transit supplied, peakTime of calculateBestViewingWindow is
\* the instant calculateRiseSetTimes returns as transitTime when the body is
\* not circumpolar; when it is, calculateRiseSetTimes returns the noon
\* reference instead and the planner still returns the transit.
C29_LocalTransitsAgree ==
  BothReturned =>
    LET noonLocal == NoonLocal(call.date, call.timezoneOffset, call.hostTz)
        transit == ToDisplay(noonLocal + HoursToTransit(call.rightAscension,
                                                        LstAtNoon(noonLocal, call.longitude)),
                             call.timezoneOffset)
    IN  /\ ret.window.peakTime = transit
        /\ ~TakenAsCircumpolar => ret.riseSet.transitTime = ret.window.peakTime
        /\ TakenAsCircumpolar => ret.riseSet.transitTime = noonLocal

\* A body that rises and sets, seen from a zone five hours behind UTC: both
\* functions return the same transit, which is not the noon reference.
C29_Witness ==
  /\ BothReturned /\ ~TakenAsCircumpolar
  /\ call.timezoneOffset = 0 - 5
  /\ ret.window.peakTime = ret.riseSet.transitTime
  /\ ret.window.peakTime # NoonLocal(call.date, call.timezoneOffset, call.hostTz)

(***************************************************************************)
(* Claims about the batch functions (SpecBatch).                           *)
(***************************************************************************)
BatchSettled == pc = "settled" /\ ret # NoResult

\* What the call for one name returns, from that name's response alone.
OwnResult(name) ==
  IF call.fn = "fetchMultipleUsnoRiseSetTimes"
  THEN fetchUsnoRiseSetTimes(name, usno[name], call.date, call.hostTz)
  ELSE fetchHorizonsRiseSetTimes(name, horizons[name], call.date, call.timezoneOffset)

BatchCallsOf == IF call.fn = "fetchMultipleUsnoRiseSetTimes" THEN usnoCalls ELSE horizonsCalls

\* C30: whatever the order in which the per-body calls complete, the batch
\* returns a map whose keys are exactly the requested names and whose value
\* for each name is the result of that name's own call.
C30_BatchKeyedByNameInAnyOrder ==
  BatchSettled =>
    /\ DOMAIN ret = Range(call.bodyNames)
    /\ \A name \in Range(call.bodyNames) :
         /\ ret[name] = BatchCallsOf[name].result
         /\ ret[name] = OwnResult(name)

\* A Horizons batch whose last requested body completed first and whose
\* first requested body completed last, the two with different results.
C30_Witness ==
  /\ BatchSettled /\ call.fn = "fetchMultipleHorizonsRiseSetTimes"
  /\ horizonsCalls[call.bodyNames[1]].finished = 3
  /\ horizonsCalls[call.bodyNames[3]].finished = 1
  /\ ret[call.bodyNames[1]] # ret[call.bodyNames[3]]
  /\ ret[call.bodyNames[1]] = OwnResult(call.bodyNames[1])
  /\ ret[call.bodyNames[3]] = OwnResult(call.bodyNames[3])

=============================================================================
